---- MODULE Spec2Model ----
(***************************************************************************)
(* A model of one port of the esp_dmx driver: the driver table slot, the   *)
(* driver object owned by dmx_driver_install / dmx_driver_delete, the      *)
(* driver flags, the timing configuration and the RDM parameter store of   *)
(* rdm/utils/pd.c.                                                         *)
(*                                                                         *)
(* The sources name the same fields differently from file to file: the     *)
(* parameter count is rdm.parameter_count in dmx_driver_install and        *)
(* num_parameters in pd.c, the heap is rdm.heap_available there and        *)
(* pd_alloc_size - pd_head here. The model keeps the names of pd.c.        *)
(*                                                                         *)
(* Of the default parameters dmx_driver_install registers the model keeps  *)
(* RDM_PID_IDENTIFY_DEVICE. The steps that set and clear SENDING are not   *)
(* among the sources and follow the transmit state machine of the          *)
(* specification. A read of memory that was never written, or of memory    *)
(* that was freed, is an input of the action that reads it; once the       *)
(* program has trapped or aborted, fault names why and nothing runs.       *)
(***************************************************************************)
EXTENDS Integers, Sequences, FiniteSets, TLC

\* ---------------------------------------------------------------- bounds
\* Capacity of the parameter table, standing for RDM_RESPONDER_PIDS_MAX.
MaxPids == 2
\* The largest size a caller passes to rdm_pd_set: one byte more than the
\* smaller of the storage sizes.
SetSizeMax == 27
\* Number of driver objects the allocator hands out in the install race.
MaxObj == 3
\* Number of slots of the frame buffer.
BufLen == 2
\* Number of bytes of a UID.
UidBytes == 2
\* driver->buf_size, the number of slots of the receive buffer.
RxBufSize == 3
\* Number of slots after which a frame on the line ends.
MaxFrame == 4
\* driver->buf_size of the port that receives the responses of a line.
LineBufSize == 26
\* Number of bytes the UART's TX FIFO holds.
TxFifoLen == 2
\* driver->tx.size of the longest frame sent.
MaxTx == 3
\* Number of requests on the line after which the controller sends no more.
MaxSent == 3

\* ------------------------------------------------------------- constants
NULL == 0
DMX_NUM_MAX == 3
DMX_BREAK_LEN_MIN_US == 92
DMX_BREAK_LEN_MAX_US == 1000000
DMX_MAB_LEN_MIN_US == 12
DMX_MAB_LEN_MAX_US == 1000000
DMX_BAUD_RATE_MIN == 245000
DMX_BAUD_RATE_MAX == 255000
DMX_BAUD_RATE == 250000
RDM_BREAK_LEN_US == 176
RDM_MAB_LEN_US == 12
DMX_PACKET_SIZE_MAX == 513
PARAMETER_HEAP_SIZE_MIN == 53
RDM_RESPONDER_PIDS_MAX == MaxPids
RDM_RESPONDER_QUEUE_SIZE_MAX == 64
RDM_PID_IDENTIFY_DEVICE == 4096

RDM_UID_MANUFACTURER_ID == 1504
RDM_SC == 204
RDM_PREAMBLE == 254
RDM_DELIMITER == 170
RDM_PREAMBLE_MAX_LEN == 7
RDM_DISCOVERY_RESP_LEN == 17
RDM_MESSAGE_LEN_INDEX == 2
\* The device part of the chip's MAC address as bswap32 returns it.
MacDevice == 7
\* A UID whose two parts are zero.
NullUid == [man_id |-> 0, dev_id |-> 0]
\* The ghost record of the frame on the line, before a frame began: the frame
\* follows a BREAK (open), slots of it have arrived, the interrupts errs were
\* raised in it and prev in the frame before, and the bytes of wire are
\* still to arrive.
NoHolder == [holder |-> 0, count |-> 0]
NoTask == [pc |-> "idle", op |-> "none", driver |-> 0, took |-> 0, gave |-> 0,
           sends |-> 0]
NoDisc == [active |-> FALSE, stack |-> <<>>, garble |-> "clash", answer |-> "ack",
           debug |-> FALSE, uid |-> 0,
           response |-> [err |-> "OK", type |-> "NONE", num_params |-> 0]]
NoFrame == [open |-> FALSE, slots |-> 0, errs |-> {}, prev |-> {}, wire |-> <<>>,
            left |-> <<>>]
\* The transmitter of a port that has sent nothing: driver->tx.size, the
\* hardware timer ("paused" or "running"), the UART's TX_DATA and TX_DONE
\* interrupt enables and the number of bytes in its TX FIFO; and, of the
\* frame being sent or sent last (ghost), its kind, whether TX_DONE has yet
\* to come (busy), the bytes written to the FIFO, the number of timer alarms
\* and of xSemaphoreGiveFromISR(driver->tx.sent_sem).
NoTx == [size |-> 0, timer |-> "paused", data_intr |-> FALSE, done_intr |-> FALSE,
         fifo |-> 0, kind |-> "none", busy |-> FALSE, wire |-> <<>>, alarms |-> 0,
         gives |-> 0]

\* dmx_flags_t
DMX_FLAGS_DRIVER_IS_ENABLED == "ENABLED"
DMX_FLAGS_DRIVER_IS_IDLE == "IDLE"
DMX_FLAGS_DRIVER_IS_SENDING == "SENDING"
DMX_FLAGS_DRIVER_SENT_LAST == "SENT_LAST"
DMX_FLAGS_DRIVER_IS_IN_BREAK == "IN_BREAK"
DMX_FLAGS_DRIVER_HAS_DATA == "HAS_DATA"

\* The port numbers a caller passes: the modelled port and one out of range.
PortInputs == {0, DMX_NUM_MAX}

\* The resources dmx_driver_install allocates, in the order it allocates them.
Resources == {"driver", "mux", "personalities", "heap", "parameters", "uart", "timer"}
\* The steps of dmx_driver_install that can fail ("none": all succeed).
FailSteps == {"none", "driver", "mux", "personalities", "heap", "parameters", "uart", "timer"}

VARIABLES
  dmx_driver,      \* dmx_driver[dmx_num]: NULL or the id of the driver object
  ptr,             \* each resource of the installation: "none", "live" or "freed"
  fault,           \* "none", or the undefined behaviour the program ran into
  flags,           \* driver->flags, a set of dmx_flags_t
  head,            \* driver->head
  tx_size,         \* driver->tx_size
  data,            \* driver->data, the frame buffer
  tn,              \* driver->tn
  rx_intr,         \* the UART's DMX_INTR_RX_ALL group is enabled
  tx_intr,         \* the UART's DMX_INTR_TX_ALL group is enabled
  break_len,       \* driver->break_len
  mab_len,         \* driver->mab_len
  baud_rate,       \* the UART's baud rate register
  num_parameters,  \* driver->num_parameters
  params,          \* driver->params[0 .. RDM_RESPONDER_PIDS_MAX - 1]
  pd_head,         \* driver->pd_head
  pd_alloc_size,   \* driver->pd_alloc_size
  rdm_queue_size,  \* driver->rdm_queue_size
  rdm_queue,       \* driver->rdm_queue[0 .. rdm_queue_size - 1], a sequence
  added,           \* ghost: the PIDs whose add succeeded since the install
  pd_mem,          \* driver->pd[0 .. pd_head - 1], the bytes handed out
  pd_format,       \* driver->params[i].definition.schema.format
  resp,            \* the last request a response handler was given, its answer
  tpc,             \* install race: where each task is in dmx_driver_install
  tdrv,            \* install race: each task's local `driver` pointer
  objs,            \* install race: the driver objects allocated and not freed
  enc,             \* the last call of rdm_pd_serialize / rdm_pd_deserialize
  rdm_sent,        \* the headers of the RDM requests sent on the port, in order
  trace,           \* the steps of the last discovery on the port, in order
  disc,            \* rdm_discover_with_callback under way: its stack and locals
  mux,             \* driver->mux: the task that holds it and how many times
  ctask,           \* each task's place in a controller call or in a delete
  bus,             \* the UIDs of the responders on the line
  muted,           \* the responders whose discovery is muted
  uids,            \* the UIDs the discovery callback was called with, in order
  response,        \* the caller's rdm_response_t, as the last request left it
  ports,           \* the ports p whose dmx_driver[p] is not NULL
  rdm_device_uid,  \* rdm_device_uid, the UID of the device
  rdm_binding_port, \* rdm_binding_port
  rdm_uid,         \* driver->rdm.uid of each port's driver
  slot_idx,        \* driver->slot_idx
  event_sent,      \* driver->rx.event_sent
  size_guess,      \* driver->rx.size_guess
  awaiting_response, \* driver->awaiting_response
  buffer,          \* driver->buffer, the slots written so far
  mode,            \* driver->mode
  rx_ena,          \* the UART's DMX_INTR_RX_ALL interrupts are enabled
  rx_queue,        \* the events in driver->rx.queue posted since the last BREAK
  rx_frame,        \* the frame on the line since the last BREAK (ghost), and
                   \* the bytes left in the UART's RX FIFO
  tx,              \* driver->tx.size, the timer, the UART's transmitter
  last             \* the last call: its name, arguments, return value, path

lifeVars == <<dmx_driver, ptr, fault>>
flagVars == <<flags, head, tx_size, data, tn, rx_intr, tx_intr>>
cfgVars == <<break_len, mab_len, baud_rate>>
pdVars == <<num_parameters, params, pd_head, pd_alloc_size, rdm_queue_size,
           rdm_queue, added, pd_mem, pd_format>>
raceVars == <<tpc, tdrv, objs>>
\* The state the actions of the driver's life cycle, flags, timing and
\* parameter table leave alone.
ctlVars == <<rdm_sent, bus, muted, uids, response, trace, disc, mux, ctask>>
portVars == <<ports, rdm_device_uid, rdm_binding_port, rdm_uid>>
isrVars == <<slot_idx, event_sent, size_guess, awaiting_response, buffer, mode,
             rx_ena, rx_queue, rx_frame, tx>>
extVars == <<enc, resp, ctlVars, portVars, isrVars>>
vars == <<lifeVars, flagVars, cfgVars, pdVars, raceVars, extVars, last>>

Tasks == {1, 2}

\* The frames a caller writes into the buffer before sending.
Frames == [0 .. BufLen - 1 -> {0, 1}]
ZeroFrame == [i \in 0 .. BufLen - 1 |-> 0]

\* One entry of driver->params: data is the offset of the parameter's
\* storage in the parameter heap, or -1 for a null pointer.
\* kind is a ghost field: which of the three add functions wrote the entry.
NoData == 0 - 1
WildData == 0 - 2
EmptySlot == [pid |-> 0, data |-> NoData, alloc_size |-> 0, kind |-> "none"]

\* The record of a call: args says which argument check of
\* dmx_driver_install the caller's arguments fail ("ok": none) and fail which
\* allocation the environment lets fail; both are "ok" / "none" for the
\* other calls.
Call(op, port, arg, ret, path) ==
  [op |-> op, port |-> port, arg |-> arg, ret |-> ret, path |-> path,
   args |-> "ok", fail |-> "none"]
\* The record of a call of rdm_pd_serialize or rdm_pd_deserialize: chained
\* says that its source was the output of the call before, whose source and
\* return value are then kept in first and ret0.
EncCall(op, len, format, source, res, chained) ==
  [op |-> op, len |-> len, format |-> format, source |-> source,
   ret |-> res.ret, out |-> res.out, chained |-> chained,
   first |-> IF chained THEN enc.source ELSE <<>>,
   ret0 |-> IF chained THEN enc.ret ELSE 0]
InstallCall(port, args, fail, ret, path) ==
  [op |-> "install", port |-> port, arg |-> num_parameters, ret |-> ret,
   path |-> path, args |-> args, fail |-> fail]

\* ------------------------------------------------------ rdm/utils/pd.c
\* The parameter store is read and written through a record
\* [num, params, head, size] of the driver's four fields, so that
\* dmx_driver_install can run the same code on the state it is building.

PdState == [num |-> num_parameters, params |-> params,
            head |-> pd_head, size |-> pd_alloc_size]

\* for (; pdi < driver->num_parameters; ++pdi) if (params[pdi].pid == pid) break;
PdFind(s, pid) ==
  LET hits == {i \in 0 .. s.num - 1 : s.params[i].pid = pid}
  IN  IF hits = {} THEN s.num
      ELSE CHOOSE i \in hits : \A j \in hits : i <= j

\* driver->params[pdi].pid == pid, read after the loop. When the loop found
\* nothing pdi is num_parameters: the slot was never written (or lies past
\* the array), its value is indeterminate and ghit says whether it happens
\* to equal pid.
PdSlotIs(s, pdi, ghit) == IF pdi < s.num THEN TRUE ELSE ghit

\* A heap that forgot what it handed out: the whole size stays available.
PdlAvailableWhole(s) == s.size
\* const size_t pdl_available = driver->pd_alloc_size - driver->pd_head;
PdlAvailable(s) == s.size - s.head

\* The table write that ends each of the three add functions.
PdAppend(s, pdi, entry) ==
  [s EXCEPT !.params = [s.params EXCEPT ![pdi] = entry], !.num = s.num + 1]

PdResult(s, ret, path) == [s |-> s, ret |-> ret, path |-> path]

\* rdm_pd_add_new; the result's ret is the returned pointer (a heap offset,
\* NoData for NULL).
rdm_pd_add_new(s, pid, alloc_size, ghit) ==
  LET pdi == PdFind(s, pid)
  IN  IF PdSlotIs(s, pdi, ghit) THEN PdResult(s, NoData, "exists")
      ELSE IF pdi = RDM_RESPONDER_PIDS_MAX THEN PdResult(s, NoData, "full")
      ELSE IF alloc_size > PdlAvailable(s) THEN PdResult(s, NoData, "noheap")
      ELSE LET pd == s.head
               s1 == [s EXCEPT !.head = s.head + alloc_size]
               entry == [pid |-> pid, data |-> pd, alloc_size |-> alloc_size,
                         kind |-> "new"]
           IN  PdResult(PdAppend(s1, pdi, entry), pd, "ok")

\* pd = driver->params[apdi].data + offset
PdAliasData(base_data, offset) ==
  IF base_data >= 0 THEN base_data + offset
  ELSE IF base_data = NoData /\ offset = 0 THEN NoData
  ELSE WildData

\* rdm_pd_add_alias. gbase decides the read of params[apdi] when the base
\* was not found and apdi is num_parameters: "miss" (the indeterminate slot
\* does not hold the base's pid), "small" (it does, and its alloc_size is
\* below the offset) or "big" (it does, and the offset passes).
rdm_pd_add_alias(s, pid, alloc_size, alias, offset, ghit, gbase) ==
  LET pdi == PdFind(s, pid)
      apdi == PdFind(s, alias)
      found == apdi < s.num
  IN  IF PdSlotIs(s, pdi, ghit) THEN PdResult(s, NoData, "exists")
      ELSE IF pdi = RDM_RESPONDER_PIDS_MAX THEN PdResult(s, NoData, "full")
      ELSE IF ~found /\ gbase = "miss" THEN PdResult(s, NoData, "nobase")
      ELSE IF (found /\ s.params[apdi].alloc_size < offset)
               \/ (~found /\ gbase = "small")
           THEN PdResult(s, NoData, "badoffset")
      ELSE LET pd == IF found THEN PdAliasData(s.params[apdi].data, offset)
                     ELSE WildData
               entry == [pid |-> pid, data |-> pd, alloc_size |-> alloc_size,
                         kind |-> "alias"]
           IN  PdResult(PdAppend(s, pdi, entry), pd, "ok")

\* rdm_pd_add_deterministic; ret is 1 for true and 0 for false.
rdm_pd_add_deterministic(s, pid, alloc_size, ghit) ==
  LET pdi == PdFind(s, pid)
  IN  IF PdSlotIs(s, pdi, ghit) THEN PdResult(s, 0, "exists")
      ELSE IF pdi = RDM_RESPONDER_PIDS_MAX THEN PdResult(s, 0, "full")
      ELSE LET entry == [pid |-> pid, data |-> NoData, alloc_size |-> alloc_size,
                         kind |-> "det"]
           IN  PdResult(PdAppend(s, pdi, entry), 1, "ok")

\* rdm_pd_list: the pids copied to the caller's array of num elements.
rdm_pd_list(s, num) ==
  LET n == IF num < s.num THEN num ELSE s.num
  IN  [i \in 1 .. n |-> s.params[i - 1].pid]

\* rdm_register_identify_device, as dmx_driver_install calls it: one byte of
\* storage for RDM_PID_IDENTIFY_DEVICE.
rdm_register_identify_device(s, ghit) ==
  rdm_pd_add_new(s, RDM_PID_IDENTIFY_DEVICE, 1, ghit)

\* ------------------------------------------ rdm/utils/pd.c, the encoding
\* A format string is a sequence of its characters and a buffer a sequence
\* of bytes. Integer literals ('#...h') are not among the formats modelled.

\* rdm_pd_get_size: the size of one instance of the format, 0 for a format
\* that is not well formed.
rdm_pd_get_size(format) ==
  LET RECURSIVE From(_, _)
      From(i, param_size) ==
        IF i > Len(format) THEN param_size
        ELSE LET c == format[i]
                 at_end == i = Len(format)
                 field_size == CASE c \in {"b", "B"} -> 1
                                 [] c \in {"w", "W"} -> 2
                                 [] c \in {"d", "D"} -> 4
                                 [] c \in {"u", "U", "v", "V"} -> 6
                                 [] c \in {"a", "A"} -> 32
                                 [] OTHER -> 0
             IN  IF c \in {"v", "V", "a", "A"} /\ ~at_end /\ format[i + 1] # "$" THEN 0
                 ELSE IF c = "$" /\ ~at_end THEN 0
                 ELSE IF c \notin {"b", "B", "w", "W", "d", "D", "u", "U", "v", "V",
                                   "a", "A", "$"} THEN 0
                 ELSE IF param_size + field_size > 231 THEN 0
                 ELSE From(i + 1, param_size + field_size)
  IN  From(1, 0)

\* rdm_pd_encode: ret is the value returned (NoData when the assertion on the
\* format's size fails) and out the bytes written to the destination, from
\* its start. The character that decides whether the parameter is a
\* singleton is format[strlen(format)], the terminator; the format pointer
\* is advanced by the inner loop and is not set back for the next instance
\* (an iteration of the outer loop that finds the inner loop at its end
\* changes nothing, and neither do the iterations after it).
rdm_pd_encode(len, format, source, encode_nulls) ==
  LET format_size == rdm_pd_get_size(format)
      num_params == IF format_size < len THEN len \div format_size ELSE 0
      Bytes(si, n) == [k \in 1 .. n |-> source[si + k]]
      Swap(b) == [k \in 1 .. Len(b) |-> b[Len(b) + 1 - k]]
      Strnlen(si) ==
        IF \A k \in 0 .. 31 : source[si + k + 1] # 0 THEN 32
        ELSE CHOOSE k \in 0 .. 31 :
               source[si + k + 1] = 0 /\ \A j \in 0 .. k - 1 : source[si + j + 1] # 0
      RECURSIVE Fields(_)
      Fields(st) ==
        IF st.fi > Len(format) THEN st
        ELSE LET c == format[st.fi]
                 Put(bytes, field_size) ==
                   Fields([fi |-> st.fi + 1, si |-> st.si + field_size,
                           out |-> st.out \o bytes])
             IN  CASE c \in {"b", "B"} -> Put(Bytes(st.si, 1), 1)
                   [] c \in {"w", "W"} -> Put(Swap(Bytes(st.si, 2)), 2)
                   [] c \in {"d", "D"} -> Put(Swap(Bytes(st.si, 4)), 4)
                   [] c \in {"u", "U", "v", "V"} ->
                        IF c \in {"v", "V"} /\ ~encode_nulls
                             /\ \A k \in 1 .. 6 : source[st.si + k] = 0
                        THEN st
                        ELSE Put(Swap(Bytes(st.si, 2)) \o Swap(Bytes(st.si + 2, 4)), 6)
                   [] c \in {"a", "A"} ->
                        LET n == Strnlen(st.si)
                        IN  IF encode_nulls THEN Put(Bytes(st.si, n) \o <<0>>, n + 1)
                            ELSE Put(Bytes(st.si, n), n)
                   [] OTHER -> st
      RECURSIVE Params(_, _)
      Params(n, st) ==
        IF n = 0 \/ Fields(st) = st THEN st ELSE Params(n - 1, Fields(st))
      written == Params(num_params, [fi |-> 1, si |-> 0, out |-> <<>>]).out
  IN  IF format_size = 0 THEN [ret |-> NoData, out |-> <<>>]
      ELSE [ret |-> Len(written), out |-> written]

\* rdm_pd_serialize
rdm_pd_serialize(len, format, source) == rdm_pd_encode(len, format, source, FALSE)

\* rdm_pd_deserialize
rdm_pd_deserialize(len, format, source) == rdm_pd_encode(len, format, source, TRUE)

\* ------------------------------------------------------------- driver.c

\* dmx_driver_is_installed
dmx_driver_is_installed(dmx_num) ==
  dmx_num < DMX_NUM_MAX /\ dmx_driver # NULL

\* dmx_driver_is_enabled
dmx_driver_is_enabled(dmx_num) ==
  IF dmx_driver_is_installed(dmx_num)
  THEN DMX_FLAGS_DRIVER_IS_ENABLED \in flags
  ELSE FALSE

Init ==
  /\ dmx_driver = NULL
  /\ ptr = [r \in Resources |-> "none"]
  /\ fault = "none"
  /\ flags = {}
  /\ head = 0 - 1
  /\ tx_size = 0
  /\ data = ZeroFrame
  /\ tn = 0
  /\ rx_intr = FALSE
  /\ tx_intr = FALSE
  /\ break_len = 0
  /\ mab_len = 0
  /\ baud_rate = 0
  /\ num_parameters = 0
  /\ params = [i \in 0 .. RDM_RESPONDER_PIDS_MAX - 1 |-> EmptySlot]
  /\ pd_head = 0
  /\ pd_alloc_size = 0
  /\ rdm_queue_size = 0
  /\ rdm_queue = <<>>
  /\ added = <<>>
  /\ pd_mem = <<>>
  /\ pd_format = [i \in 0 .. RDM_RESPONDER_PIDS_MAX - 1 |-> <<>>]
  /\ resp = [cc |-> "none", pid |-> 0, sub_device |-> 0, pd |-> <<>>,
             type |-> "none", out |-> <<>>]
  /\ tpc = [t \in Tasks |-> "idle"]
  /\ tdrv = [t \in Tasks |-> NULL]
  /\ objs = {}
  /\ enc = EncCall("none", 0, <<>>, <<>>, [ret |-> 0, out |-> <<>>], FALSE)
  /\ rdm_sent = <<>>
  /\ trace = <<>>
  /\ disc = NoDisc
  /\ mux = NoHolder
  /\ ctask = [t \in Tasks |-> NoTask]
  /\ bus = {}
  /\ muted = {}
  /\ uids = <<>>
  /\ response = [err |-> "OK", type |-> "NONE", num_params |-> 0, timer |-> 0,
                 nack_reason |-> 0]
  /\ ports = {}
  /\ rdm_device_uid = NullUid
  /\ rdm_binding_port = 0
  /\ rdm_uid = [p \in 0 .. DMX_NUM_MAX - 1 |-> NullUid]
  /\ slot_idx = 0 - 1
  /\ event_sent = TRUE
  /\ size_guess = DMX_PACKET_SIZE_MAX
  /\ awaiting_response = FALSE
  /\ buffer = [i \in 0 .. RDM_MESSAGE_LEN_INDEX |-> 0]
  /\ mode = "READ"
  /\ rx_ena = TRUE
  /\ rx_queue = <<>>
  /\ rx_frame = NoFrame
  /\ tx = NoTx
  /\ last = Call("none", 0, 0, 0, "none")

\* The resources dmx_driver_install has allocated when step `fail` fails.
InstallOrder == <<"driver", "mux", "personalities", "heap", "parameters", "uart", "timer">>
StepIndex(step) == CHOOSE i \in 1 .. Len(InstallOrder) : InstallOrder[i] = step
AllocatedBefore(fail) ==
  IF fail = "none" THEN Resources
  ELSE {InstallOrder[i] : i \in 1 .. StepIndex(fail) - 1}

\* The driver fields dmx_driver_delete reads that dmx_driver_install has not
\* assigned yet when step `fail` fails (rdm.parameters, uart, timer and
\* metadata_queue are not set to NULL after the malloc of the driver).
UninitAtDelete(fail) ==
  CASE fail \in {"personalities", "heap"} -> {"parameters", "uart", "timer", "metadata_queue"}
    [] fail = "parameters" -> {"uart", "timer", "metadata_queue"}
    [] fail = "uart" -> {"timer"}
    [] OTHER -> {}

\* The way dmx_driver_install ends. g is the outcome of the undefined reads
\* on a failure path: "benign" (every indeterminate pointer reads as NULL and
\* the freed driver still reads as it did), "wild" (dmx_driver_delete frees or
\* deinitialises an indeterminate pointer) or "clobbered" (the field read
\* from the freed driver after dmx_driver_delete no longer reads as NULL).
InstallPath(dmx_num, config_null, footprint_ok, fail, g) ==
  IF ~(dmx_num < DMX_NUM_MAX) THEN "bad_port"
  ELSE IF config_null THEN "null_config"
  ELSE IF dmx_driver_is_installed(dmx_num) THEN "installed"
  ELSE IF ~footprint_ok THEN "footprint"
  ELSE IF fail = "none" THEN "ok"
  ELSE IF fail = "driver" THEN "nomem"
  ELSE IF fail = "mux" THEN "null_mutex"
  ELSE IF g = "wild" /\ UninitAtDelete(fail) # {} THEN "wild_pointer"
  ELSE IF g = "clobbered" THEN "use_after_free"
  ELSE "unwound"

\* driver->flags = (DMX_FLAGS_DRIVER_IS_ENABLED | DMX_FLAGS_DRIVER_IS_IDLE)
InstallFlags == {DMX_FLAGS_DRIVER_IS_ENABLED, DMX_FLAGS_DRIVER_IS_IDLE}

\* An install that kept the count it found in the driver's memory.
InstallParameterCountStale == num_parameters
\* driver->rdm.parameter_count = 0
InstallParameterCount == 0

\* if (config->parameter_heap_size < 53) config->parameter_heap_size = 53
InstallHeapSize(parameter_heap_size) ==
  IF parameter_heap_size < PARAMETER_HEAP_SIZE_MIN
  THEN PARAMETER_HEAP_SIZE_MIN
  ELSE parameter_heap_size

\* dmx_driver[dmx_num] = NULL in dmx_driver_delete
DeleteSlot == NULL

\* The parameter heap sizes a configuration asks for.
HeapSizeInputs == {0, 53}
GarbageOutcomes == {"benign", "wild", "clobbered"}

\* The calls of dmx_driver_install: an argument that a check rejects is
\* paired with one value of the inputs the call then never reads.
InstallInputs ==
  {in \in [dmx_num : PortInputs, arg : {"ok", "null_config", "footprint"},
           hs : HeapSizeInputs, fail : FailSteps, g : GarbageOutcomes,
           ghit : BOOLEAN] :
     /\ (in.dmx_num # 0 => in.arg = "ok")
     /\ (in.dmx_num # 0 \/ in.arg # "ok" => in.fail = "none")
     /\ (in.dmx_num # 0 \/ in.arg # "ok" \/ in.fail # "none" =>
           in.hs = 0 /\ ~in.ghit)
     /\ (in.fail \in {"none", "driver", "mux"} => in.g = "benign")
     /\ (in.g = "wild" => UninitAtDelete(in.fail) # {})}

\* The state of a driver that dmx_driver_install has built completely.
InstallFields(parameter_heap_size, ghit) ==
  LET s0 == [num |-> InstallParameterCount,
             params |-> [i \in 0 .. RDM_RESPONDER_PIDS_MAX - 1 |-> EmptySlot],
             head |-> 0,
             size |-> InstallHeapSize(parameter_heap_size)]
      reg == rdm_register_identify_device(s0, ghit)
  IN  /\ flags' = InstallFlags
      /\ head' = 0 - 1
      /\ tx_size' = DMX_PACKET_SIZE_MAX
      /\ data' = ZeroFrame
      /\ tn' = 0
      /\ rx_intr' = TRUE
      /\ tx_intr' = FALSE
      /\ break_len' = RDM_BREAK_LEN_US
      /\ mab_len' = RDM_MAB_LEN_US
      /\ baud_rate' = DMX_BAUD_RATE
      /\ num_parameters' = reg.s.num
      /\ params' = reg.s.params
      /\ pd_head' = reg.s.head
      /\ pd_alloc_size' = reg.s.size
      /\ rdm_queue_size' = 0
      /\ rdm_queue' = <<>>
      /\ added' = IF reg.ret # NoData THEN <<RDM_PID_IDENTIFY_DEVICE>> ELSE <<>>
      /\ pd_mem' = [i \in 1 .. reg.s.head |-> 0]
      /\ pd_format' = [i \in 0 .. RDM_RESPONDER_PIDS_MAX - 1 |->
                         IF i < reg.s.num THEN <<"b", "$">> ELSE <<>>]

\* dmx_driver_install
dmx_driver_install(dmx_num, config_null, footprint_ok, parameter_heap_size, fail, g, ghit) ==
  LET path == InstallPath(dmx_num, config_null, footprint_ok, fail, g)
      alloc == AllocatedBefore(fail)
      args == IF config_null THEN "null_config"
              ELSE IF ~footprint_ok THEN "footprint" ELSE "ok"
  IN  /\ fault = "none"
      /\ \A t \in Tasks : tpc[t] = "idle"
      /\ UNCHANGED <<raceVars, extVars>>
      /\ CASE path \in {"bad_port", "null_config", "installed", "footprint", "nomem"} ->
                /\ last' = InstallCall(dmx_num, args, fail, 0, path)
                /\ UNCHANGED <<lifeVars, flagVars, cfgVars, pdVars>>
           [] path \in {"null_mutex", "wild_pointer"} ->
                /\ dmx_driver' = 1
                /\ ptr' = [r \in Resources |-> IF r \in alloc THEN "live" ELSE "none"]
                /\ fault' = path
                /\ last' = InstallCall(dmx_num, args, fail, 0 - 1, path)
                /\ UNCHANGED <<flagVars, cfgVars, pdVars>>
           [] path = "use_after_free" ->
                /\ dmx_driver' = DeleteSlot
                /\ ptr' = [r \in Resources |-> IF r \in alloc THEN "freed" ELSE "none"]
                /\ fault' = path
                /\ last' = InstallCall(dmx_num, args, fail, 0 - 1, path)
                /\ UNCHANGED <<flagVars, cfgVars, pdVars>>
           [] path = "unwound" ->
                /\ dmx_driver' = DeleteSlot
                /\ ptr' = [r \in Resources |-> IF r \in alloc THEN "freed" ELSE "none"]
                /\ fault' = "none"
                /\ last' = InstallCall(dmx_num, args, fail, 0, path)
                /\ UNCHANGED <<flagVars, cfgVars, pdVars>>
           [] path = "ok" ->
                /\ dmx_driver' = 1
                /\ ptr' = [r \in Resources |-> "live"]
                /\ fault' = "none"
                /\ InstallFields(parameter_heap_size, ghit)
                /\ last' = InstallCall(dmx_num, args, fail, 1, path)

\* dmx_driver_delete
dmx_driver_delete(dmx_num) ==
  /\ fault = "none"
  /\ \A t \in Tasks : tpc[t] = "idle"
  /\ UNCHANGED <<raceVars, extVars>>
  /\ IF ~(dmx_num < DMX_NUM_MAX) THEN
       /\ last' = Call("delete", dmx_num, 0, 0, "bad_port")
       /\ UNCHANGED <<lifeVars, flagVars, cfgVars, pdVars>>
     ELSE IF ~dmx_driver_is_installed(dmx_num) THEN
       /\ last' = Call("delete", dmx_num, 0, 0, "not_installed")
       /\ UNCHANGED <<lifeVars, flagVars, cfgVars, pdVars>>
     ELSE
       /\ dmx_driver' = DeleteSlot
       /\ ptr' = [r \in Resources |-> IF ptr[r] = "live" THEN "freed" ELSE ptr[r]]
       /\ fault' = IF \E r \in Resources : ptr[r] = "freed" THEN "double_free" ELSE "none"
       /\ rx_intr' = FALSE
       /\ tx_intr' = FALSE
       /\ last' = Call("delete", dmx_num, 0, 1, "ok")
       /\ UNCHANGED <<flags, head, tx_size, data, tn, cfgVars, pdVars>>

\* A disable that did not look at SENDING.
DisableAllowedAlways(f) == f = f
\* if (!(driver->flags & DMX_FLAGS_DRIVER_IS_SENDING)) in dmx_driver_disable
DisableAllowed(f) == DMX_FLAGS_DRIVER_IS_SENDING \notin f

\* driver->flags &= ~DMX_FLAGS_DRIVER_IS_ENABLED
DisableFlags(f) == f \ {DMX_FLAGS_DRIVER_IS_ENABLED}

\* dmx_driver_disable
dmx_driver_disable(dmx_num) ==
  /\ fault = "none"
  /\ UNCHANGED <<lifeVars, cfgVars, pdVars, raceVars, extVars>>
  /\ IF ~(dmx_num < DMX_NUM_MAX) THEN
       /\ last' = Call("disable", dmx_num, 0, 0, "bad_port")
       /\ UNCHANGED flagVars
     ELSE IF ~dmx_driver_is_installed(dmx_num) THEN
       /\ last' = Call("disable", dmx_num, 0, 0, "not_installed")
       /\ UNCHANGED flagVars
     ELSE IF ~dmx_driver_is_enabled(dmx_num) THEN
       /\ last' = Call("disable", dmx_num, 0, 0, "already_disabled")
       /\ UNCHANGED flagVars
     ELSE IF ~DisableAllowed(flags) THEN
       /\ last' = Call("disable", dmx_num, 0, 0, "sending")
       /\ UNCHANGED flagVars
     ELSE
       /\ rx_intr' = FALSE
       /\ flags' = DisableFlags(flags)
       /\ last' = Call("disable", dmx_num, 0, 1, "ok")
       /\ UNCHANGED <<head, tx_size, data, tn, tx_intr>>

\* The two flag updates of dmx_driver_enable.
EnableFlags(f) ==
  (f \cup {DMX_FLAGS_DRIVER_IS_ENABLED, DMX_FLAGS_DRIVER_IS_IDLE})
    \ {DMX_FLAGS_DRIVER_IS_IN_BREAK, DMX_FLAGS_DRIVER_HAS_DATA}

\* dmx_driver_enable
dmx_driver_enable(dmx_num) ==
  /\ fault = "none"
  /\ UNCHANGED <<lifeVars, cfgVars, pdVars, raceVars, extVars>>
  /\ IF ~(dmx_num < DMX_NUM_MAX) THEN
       /\ last' = Call("enable", dmx_num, 0, 0, "bad_port")
       /\ UNCHANGED flagVars
     ELSE IF ~dmx_driver_is_installed(dmx_num) THEN
       /\ last' = Call("enable", dmx_num, 0, 0, "not_installed")
       /\ UNCHANGED flagVars
     ELSE IF dmx_driver_is_enabled(dmx_num) THEN
       /\ last' = Call("enable", dmx_num, 0, 0, "already_enabled")
       /\ UNCHANGED flagVars
     ELSE
       /\ head' = 0 - 1
       /\ flags' = EnableFlags(flags)
       /\ rx_intr' = TRUE
       /\ last' = Call("enable", dmx_num, 0, 1, "ok")
       /\ UNCHANGED <<tx_size, data, tn, tx_intr>>

\* ---------------------------------------------- framing engine, transmit
\* The transmit path that sets and clears DMX_FLAGS_DRIVER_IS_SENDING is not
\* among the sources; these three steps follow the transmit state machine
\* of the specification (section 4.1, steps 1, 3 and 5).

\* Step 1: the caller fills the buffer, writes tx_size, clears the TX
\* interrupts and sets SENDING.
dmx_send(frame) ==
  /\ fault = "none"
  /\ dmx_driver_is_installed(0)
  /\ dmx_driver_is_enabled(0)
  /\ DMX_FLAGS_DRIVER_IS_SENDING \notin flags
  /\ data' = frame
  /\ tx_size' = BufLen
  /\ head' = 0
  /\ tx_intr' = FALSE
  /\ flags' = flags \cup {DMX_FLAGS_DRIVER_IS_SENDING}
  /\ last' = Call("send", 0, 0, BufLen, "ok")
  /\ UNCHANGED <<lifeVars, tn, rx_intr, cfgVars, pdVars, raceVars, extVars>>

\* Step 3: after BREAK and MAB the buffer is pushed to the TX FIFO and the
\* TX interrupts are enabled.
dmx_tx_start ==
  /\ fault = "none"
  /\ dmx_driver # NULL
  /\ DMX_FLAGS_DRIVER_IS_SENDING \in flags
  /\ ~tx_intr
  /\ head = 0
  /\ head' = tx_size
  /\ tx_intr' = TRUE
  /\ last' = Call("tx_start", 0, 0, 0, "ok")
  /\ UNCHANGED <<lifeVars, flags, tx_size, data, tn, rx_intr, cfgVars, pdVars, raceVars, extVars>>

\* Step 5: TX_DONE after a frame that asks for no response.
dmx_tx_done ==
  /\ fault = "none"
  /\ dmx_driver # NULL
  /\ DMX_FLAGS_DRIVER_IS_SENDING \in flags
  /\ tx_intr
  /\ tx_intr' = FALSE
  /\ flags' = flags \ {DMX_FLAGS_DRIVER_IS_SENDING, DMX_FLAGS_DRIVER_SENT_LAST}
  /\ last' = Call("tx_done", 0, 0, 0, "ok")
  /\ UNCHANGED <<lifeVars, head, tx_size, data, tn, rx_intr, cfgVars, pdVars, raceVars, extVars>>

\* ------------------------------------- driver.c, two tasks installing
\* dmx_driver_install takes no lock: between its check of the table slot, its
\* write of the slot and its return another task can run. tpc[t] is where
\* task t stands: "idle", "alloc" (the checks passed), "init" (the driver is
\* allocated and in the slot), "true" / "false" (the call returned that, and
\* no dmx_driver_delete has succeeded since).
TaskAtRest(t) == tpc[t] \in {"idle", "true", "false"}

\* DMX_CHECK(!dmx_driver_is_installed(dmx_num), false, ...)
InstallCheck(t) ==
  /\ fault = "none"
  /\ UNCHANGED extVars
  /\ TaskAtRest(t)
  /\ IF dmx_driver_is_installed(0)
     THEN /\ tpc' = [tpc EXCEPT ![t] = "false"]
          /\ last' = Call("install", 0, t, 0, "installed")
     ELSE /\ tpc' = [tpc EXCEPT ![t] = "alloc"]
          /\ UNCHANGED last
  /\ UNCHANGED <<lifeVars, flagVars, cfgVars, pdVars, tdrv, objs>>

\* driver = heap_caps_malloc(...); dmx_driver[dmx_num] = driver;
InstallAlloc(t, obj) ==
  /\ fault = "none"
  /\ UNCHANGED extVars
  /\ tpc[t] = "alloc"
  /\ obj \notin objs
  /\ objs' = objs \cup {obj}
  /\ tdrv' = [tdrv EXCEPT ![t] = obj]
  /\ dmx_driver' = obj
  /\ tpc' = [tpc EXCEPT ![t] = "init"]
  /\ UNCHANGED <<ptr, fault, flagVars, cfgVars, pdVars, last>>

\* The rest of dmx_driver_install, every allocation succeeding. The fields
\* are written through the task's own pointer; the default parameters are
\* registered through dmx_driver[dmx_num], which asserts that it is not NULL;
\* when that is a driver another task has not initialised yet, g says
\* whether its indeterminate fields let the registration go through.
InstallInit(t, g) ==
  /\ fault = "none"
  /\ UNCHANGED extVars
  /\ tpc[t] = "init"
  /\ UNCHANGED <<dmx_driver, tdrv, objs>>
  /\ IF dmx_driver = NULL THEN
       /\ fault' = "assert"
       /\ last' = Call("install", 0, t, 0 - 1, "assert")
       /\ UNCHANGED <<ptr, flagVars, cfgVars, pdVars, tpc>>
     ELSE IF tdrv[t] = dmx_driver THEN
       /\ ptr' = [r \in Resources |-> "live"]
       /\ fault' = "none"
       /\ InstallFields(0, FALSE)
       /\ tpc' = [tpc EXCEPT ![t] = "true"]
       /\ last' = Call("install", 0, t, 1, "ok")
     ELSE IF g = "wild" /\ \E u \in Tasks : tpc[u] = "init" /\ tdrv[u] = dmx_driver THEN
       /\ fault' = "uninitialised"
       /\ last' = Call("install", 0, t, 0 - 1, "uninitialised")
       /\ UNCHANGED <<ptr, flagVars, cfgVars, pdVars, tpc>>
     ELSE
       /\ tpc' = [tpc EXCEPT ![t] = "true"]
       /\ last' = Call("install", 0, t, 1, "other_driver")
       /\ UNCHANGED <<ptr, fault, flagVars, cfgVars, pdVars>>

\* dmx_driver_delete by a task that is not inside dmx_driver_install. A driver
\* that another task is still building has a NULL mutex.
RaceDelete(t) ==
  /\ fault = "none"
  /\ UNCHANGED extVars
  /\ TaskAtRest(t)
  /\ UNCHANGED <<flags, head, tx_size, data, tn, cfgVars, pdVars, tdrv>>
  /\ IF ~dmx_driver_is_installed(0) THEN
       /\ last' = Call("delete", 0, t, 0, "not_installed")
       /\ UNCHANGED <<lifeVars, rx_intr, tx_intr, tpc, objs>>
     ELSE IF \E u \in Tasks : tpc[u] = "init" /\ tdrv[u] = dmx_driver THEN
       /\ fault' = "null_mutex"
       /\ last' = Call("delete", 0, t, 0 - 1, "null_mutex")
       /\ UNCHANGED <<dmx_driver, ptr, rx_intr, tx_intr, tpc, objs>>
     ELSE
       /\ dmx_driver' = DeleteSlot
       /\ objs' = objs \ {dmx_driver}
       /\ ptr' = [r \in Resources |-> IF ptr[r] = "live" THEN "freed" ELSE ptr[r]]
       /\ fault' = "none"
       /\ rx_intr' = FALSE
       /\ tx_intr' = FALSE
       /\ tpc' = [u \in Tasks |-> IF tpc[u] \in {"true", "false"} THEN "idle" ELSE tpc[u]]
       /\ last' = Call("delete", 0, t, 1, "ok")

\* ------------------------------------------------ driver.c, the timing
\* A clamp without the upper limit.
ClampNoMax(v, lo, hi) == IF v < lo THEN lo ELSE v
\* if (v < MIN) v = MIN; else if (v > MAX) v = MAX;
Clamp(v, lo, hi) == IF v < lo THEN lo ELSE IF v > hi THEN hi ELSE v

\* The values the callers pass, up to 2^31 - 1.
BreakInputs == {0, 50, 91, 92, 176, 1000000, 2000000, 2147483647}
MabInputs == {0, 11, 12, 1000001}
BaudInputs == {0, 244999, 245000, 250000, 255000, 255001}

\* A call that leaves the driver as it is and returns ret.
CfgReturn(op, dmx_num, v, ret, path) ==
  /\ last' = Call(op, dmx_num, v, ret, path)
  /\ UNCHANGED <<lifeVars, cfgVars>>

\* dmx_driver[dmx_num]->... on a port whose table slot is NULL: the access
\* traps, or g = "survive" and the program goes on with what the access read.
NullDriver(op, dmx_num, v, ret, g) ==
  IF g = "trap"
  THEN /\ fault' = "null_driver"
       /\ last' = Call(op, dmx_num, v, 0 - 1, "null_driver")
       /\ UNCHANGED <<dmx_driver, ptr, cfgVars>>
  ELSE CfgReturn(op, dmx_num, v, ret, "null_driver")

\* dmx_get_break_len
dmx_get_break_len(dmx_num) ==
  /\ fault = "none"
  /\ UNCHANGED <<flagVars, pdVars, raceVars, extVars>>
  /\ IF ~(dmx_num < DMX_NUM_MAX) THEN CfgReturn("get_break_len", dmx_num, 0, 0, "bad_port")
     ELSE IF ~dmx_driver_is_installed(dmx_num)
       THEN CfgReturn("get_break_len", dmx_num, 0, 0, "not_installed")
     ELSE CfgReturn("get_break_len", dmx_num, 0, break_len, "ok")

\* dmx_set_break_len
dmx_set_break_len(dmx_num, v) ==
  /\ fault = "none"
  /\ UNCHANGED <<flagVars, pdVars, raceVars, extVars>>
  /\ IF ~(dmx_num < DMX_NUM_MAX) THEN CfgReturn("set_break_len", dmx_num, v, 0, "bad_port")
     ELSE IF ~dmx_driver_is_installed(dmx_num)
       THEN CfgReturn("set_break_len", dmx_num, v, 0, "not_installed")
     ELSE
       /\ break_len' = Clamp(v, DMX_BREAK_LEN_MIN_US, DMX_BREAK_LEN_MAX_US)
       /\ last' = Call("set_break_len", dmx_num, v, break_len', "ok")
       /\ UNCHANGED <<lifeVars, mab_len, baud_rate>>

\* dmx_get_mab_len
dmx_get_mab_len(dmx_num) ==
  /\ fault = "none"
  /\ UNCHANGED <<flagVars, pdVars, raceVars, extVars>>
  /\ IF ~(dmx_num < DMX_NUM_MAX) THEN CfgReturn("get_mab_len", dmx_num, 0, 0, "bad_port")
     ELSE IF ~dmx_driver_is_installed(dmx_num)
       THEN CfgReturn("get_mab_len", dmx_num, 0, 0, "not_installed")
     ELSE CfgReturn("get_mab_len", dmx_num, 0, mab_len, "ok")

\* dmx_set_mab_len
dmx_set_mab_len(dmx_num, v) ==
  /\ fault = "none"
  /\ UNCHANGED <<flagVars, pdVars, raceVars, extVars>>
  /\ IF ~(dmx_num < DMX_NUM_MAX) THEN CfgReturn("set_mab_len", dmx_num, v, 0, "bad_port")
     ELSE IF ~dmx_driver_is_installed(dmx_num)
       THEN CfgReturn("set_mab_len", dmx_num, v, 0, "not_installed")
     ELSE
       /\ mab_len' = Clamp(v, DMX_MAB_LEN_MIN_US, DMX_MAB_LEN_MAX_US)
       /\ last' = Call("set_mab_len", dmx_num, v, mab_len', "ok")
       /\ UNCHANGED <<lifeVars, break_len, baud_rate>>

\* dmx_get_baud_rate: no check that a driver is installed.
dmx_get_baud_rate(dmx_num, g) ==
  /\ fault = "none"
  /\ UNCHANGED <<flagVars, pdVars, raceVars, extVars>>
  /\ IF ~(dmx_num < DMX_NUM_MAX) THEN CfgReturn("get_baud_rate", dmx_num, 0, 0, "bad_port")
     ELSE IF dmx_driver = NULL
       THEN NullDriver("get_baud_rate", dmx_num, 0, baud_rate, g)
     ELSE CfgReturn("get_baud_rate", dmx_num, 0, baud_rate, "ok")

\* dmx_set_baud_rate: no check that a driver is installed.
dmx_set_baud_rate(dmx_num, v, g) ==
  /\ fault = "none"
  /\ UNCHANGED <<flagVars, pdVars, raceVars, extVars>>
  /\ IF ~(dmx_num < DMX_NUM_MAX) THEN CfgReturn("set_baud_rate", dmx_num, v, 0, "bad_port")
     ELSE IF dmx_driver = NULL
       THEN NullDriver("set_baud_rate", dmx_num, v,
                       Clamp(v, DMX_BAUD_RATE_MIN, DMX_BAUD_RATE_MAX), g)
     ELSE
       /\ baud_rate' = Clamp(v, DMX_BAUD_RATE_MIN, DMX_BAUD_RATE_MAX)
       /\ last' = Call("set_baud_rate", dmx_num, v, baud_rate', "ok")
       /\ UNCHANGED <<lifeVars, break_len, mab_len>>

\* ------------------------------------------- rdm/utils/pd.c, the calls
\* The PIDs, sizes and offsets the callers pass.
PidInputs == {1, 2, RDM_PID_IDENTIFY_DEVICE}
NewSizeInputs == {26, 40}
AliasOffsetInputs == {0, 1, 27}
ListSizeInputs == {0, MaxPids}

\* The calls of the three add functions. A call for another sub-device than
\* the root returns before it reads its other arguments, and an indeterminate
\* slot that reads as the PID itself ends the call before the base is read.
AddNewInputs ==
  {in \in [pid : PidInputs, sub_device : {0, 1}, alloc_size : NewSizeInputs,
           ghit : BOOLEAN] :
     in.sub_device # 0 => in.pid = 1 /\ in.alloc_size = 26 /\ ~in.ghit}
AddAliasInputs ==
  {in \in [pid : PidInputs, sub_device : {0, 1}, alias : PidInputs,
           offset : AliasOffsetInputs, ghit : BOOLEAN, gbase : {"miss", "big"}] :
     /\ (in.sub_device # 0 => in.pid = 1 /\ in.alias = 1 /\ in.offset = 0 /\ ~in.ghit)
     /\ (in.sub_device # 0 \/ in.ghit => in.gbase = "miss")}
AddDeterministicInputs ==
  {in \in [pid : PidInputs, sub_device : {0, 1}, ghit : BOOLEAN] :
     in.sub_device # 0 => in.pid = 1 /\ ~in.ghit}

\* The four driver fields take the values of the store s.
PdCommit(s) ==
  /\ num_parameters' = s.num
  /\ params' = s.params
  /\ pd_head' = s.head
  /\ pd_alloc_size' = s.size

\* memset(pd, 0, def->schema.pdl_size) and params[pdi].definition = *def of
\* an add that changed the store to s: the bytes an rdm_pd_add_new reserved
\* are zeroed (init_value is NULL, pdl_size is alloc_size) and the entry
\* keeps the format of its definition.
PdDefine(s, format) ==
  /\ pd_mem' = [i \in 1 .. s.head |-> IF i <= Len(pd_mem) THEN pd_mem[i] ELSE 0]
  /\ pd_format' = IF s.num = num_parameters THEN pd_format
                  ELSE [pd_format EXCEPT ![s.num - 1] = format]

\* assert(dmx_driver_is_installed(dmx_num)) fails: the program aborts.
PdAbort(op) ==
  /\ fault' = "assert"
  /\ last' = Call(op, 0, 0, NoData, "assert")
  /\ UNCHANGED <<dmx_driver, ptr, pdVars>>

\* DMX_CHECK(sub_device == RDM_SUB_DEVICE_ROOT, 0, ...) fails.
PdNotRoot(op) ==
  /\ last' = Call(op, 0, 0, IF op \in {"add_new", "add_alias"} THEN NoData ELSE 0,
                  "sub_device")
  /\ UNCHANGED <<lifeVars, pdVars>>

\* added, after a call that returned ret for pid: the PIDs whose add
\* returned success, in the order of the calls.
AddedAfter(pid, ok) == IF ok THEN Append(added, pid) ELSE added

\* A call of rdm_pd_add_new on port 0.
PdAddNew(pid, sub_device, alloc_size, format, ghit) ==
  /\ fault = "none"
  /\ UNCHANGED <<flagVars, cfgVars, raceVars, extVars>>
  /\ IF ~dmx_driver_is_installed(0) THEN PdAbort("add_new")
     ELSE IF sub_device # 0 THEN PdNotRoot("add_new")
     ELSE
       LET res == rdm_pd_add_new(PdState, pid, alloc_size, ghit)
       IN  /\ PdCommit(res.s)
           /\ PdDefine(res.s, format)
           /\ added' = AddedAfter(pid, res.ret # NoData)
           /\ last' = Call("add_new", 0, alloc_size, res.ret, res.path)
           /\ UNCHANGED <<lifeVars, rdm_queue_size, rdm_queue>>

\* The arguments alias and offset of a call of rdm_pd_add_alias, as the
\* call's record keeps them.
AliasArg(alias, offset) == alias * 100 + offset
ArgAlias(arg) == arg \div 100
ArgOffset(arg) == arg % 100

\* A call of rdm_pd_add_alias on port 0; the alias has one byte.
PdAddAlias(pid, sub_device, alias, offset, ghit, gbase) ==
  /\ fault = "none"
  /\ UNCHANGED <<flagVars, cfgVars, raceVars, extVars>>
  /\ IF ~dmx_driver_is_installed(0) THEN PdAbort("add_alias")
     ELSE IF sub_device # 0 THEN PdNotRoot("add_alias")
     ELSE
       LET res == rdm_pd_add_alias(PdState, pid, 1, alias, offset, ghit, gbase)
       IN  /\ PdCommit(res.s)
           /\ PdDefine(res.s, <<"b">>)
           /\ added' = AddedAfter(pid, res.ret # NoData)
           /\ last' = Call("add_alias", 0, AliasArg(alias, offset), res.ret, res.path)
           /\ UNCHANGED <<lifeVars, rdm_queue_size, rdm_queue>>

\* A call of rdm_pd_add_deterministic on port 0; a deterministic parameter
\* has no storage and its definition's alloc_size is 0.
PdAddDeterministic(pid, sub_device, ghit) ==
  /\ fault = "none"
  /\ UNCHANGED <<flagVars, cfgVars, raceVars, extVars>>
  /\ IF ~dmx_driver_is_installed(0) THEN PdAbort("add_deterministic")
     ELSE IF sub_device # 0 THEN PdNotRoot("add_deterministic")
     ELSE
       LET res == rdm_pd_add_deterministic(PdState, pid, 0, ghit)
       IN  /\ PdCommit(res.s)
           /\ PdDefine(res.s, <<"b">>)
           /\ added' = AddedAfter(pid, res.ret # 0)
           /\ last' = Call("add_deterministic", 0, 0, res.ret, res.path)
           /\ UNCHANGED <<lifeVars, rdm_queue_size, rdm_queue>>

\* A call of rdm_pd_list on port 0 with an array of num elements.
PdList(sub_device, num) ==
  /\ fault = "none"
  /\ UNCHANGED <<flagVars, cfgVars, raceVars, extVars>>
  /\ IF ~dmx_driver_is_installed(0) THEN PdAbort("list")
     ELSE IF sub_device # 0 THEN PdNotRoot("list")
     ELSE
       /\ last' = Call("list", 0, num, num_parameters, "ok")
       /\ UNCHANGED <<lifeVars, pdVars>>

\* ------------------------- rdm/utils/pd.c, the add functions step by step
\* Two tasks call the add functions on port 0 and the scheduler switches
\* between them wherever the code is outside a critical section. ctask[t]
\* keeps the call's arguments and its locals pdi and pd. A call starts only
\* while the table has room for every call under way, so that no loop reads
\* past the array.
AddOps == {"add_new", "add_alias", "add_deterministic"}
AddRest ==
  UNCHANGED <<lifeVars, flagVars, cfgVars, raceVars, enc, resp, portVars, isrVars,
              rdm_sent, bus, muted, uids, response, trace, disc, mux,
              rdm_queue_size, rdm_queue, pd_alloc_size>>
AddFailed(op) == IF op = "add_deterministic" THEN 0 ELSE NoData
AddArg(task) ==
  IF task.op = "add_alias" THEN AliasArg(task.alias, task.offset) ELSE task.alloc_size

\* The call's return.
AddReturn(t, ret, path) ==
  /\ ctask' = [ctask EXCEPT ![t] = NoTask]
  /\ last' = Call(ctask[t].op, 0, AddArg(ctask[t]), ret, path)

\* The call, up to taskENTER_CRITICAL.
AddCall(t, op, pid, alloc_size, alias, offset) ==
  /\ fault = "none"
  /\ ctask[t].pc = "idle"
  /\ dmx_driver_is_installed(0)
  /\ num_parameters + Cardinality({u \in Tasks : ctask[u].pc # "idle"})
       < RDM_RESPONDER_PIDS_MAX
  /\ ctask' = [ctask EXCEPT ![t] =
                 [pc |-> "find", op |-> op, pid |-> pid, alloc_size |-> alloc_size,
                  alias |-> alias, offset |-> offset, pdi |-> 0, pd |-> NoData]]
  /\ UNCHANGED <<num_parameters, params, pd_head, added, pd_mem, pd_format, last>>
  /\ AddRest

\* The search for the PID, inside the critical section.
AddFind(t) ==
  /\ ctask[t].pc = "find"
  /\ ctask' = [ctask EXCEPT ![t].pdi = PdFind(PdState, ctask[t].pid),
                            ![t].pc = "check"]
  /\ UNCHANGED <<num_parameters, params, pd_head, added, pd_mem, pd_format, last>>
  /\ AddRest

\* if (driver->params[pdi].pid == pid) return and
\* if (pdi == RDM_RESPONDER_NUM_PIDS_MAX) return, after the critical section:
\* the slot is read as it is now, and a slot no add has written reads as
\* ghit says.
AddCheck(t, ghit) ==
  LET task == ctask[t]
      written == task.pdi < RDM_RESPONDER_PIDS_MAX /\ params[task.pdi].kind # "none"
      slot_is == IF written THEN params[task.pdi].pid = task.pid ELSE ghit
  IN  /\ task.pc = "check"
      /\ IF slot_is THEN AddReturn(t, AddFailed(task.op), "exists")
         ELSE IF task.pdi = RDM_RESPONDER_PIDS_MAX
              THEN AddReturn(t, AddFailed(task.op), "full")
         ELSE /\ ctask' = [ctask EXCEPT ![t].pc =
                             CASE task.op = "add_new" -> "reserve"
                               [] task.op = "add_alias" -> "alias"
                               [] OTHER -> "write"]
              /\ last' = last
      /\ UNCHANGED <<num_parameters, params, pd_head, added, pd_mem, pd_format>>
      /\ AddRest

\* rdm_pd_add_new reserves the parameter's bytes inside its second critical
\* section and zeroes them.
AddReserve(t) ==
  LET task == ctask[t]
  IN  /\ task.pc = "reserve"
      /\ IF task.alloc_size > PdlAvailable(PdState)
         THEN /\ AddReturn(t, NoData, "noheap")
              /\ UNCHANGED <<pd_head, pd_mem>>
         ELSE /\ ctask' = [ctask EXCEPT ![t].pd = pd_head, ![t].pc = "write"]
              /\ pd_head' = pd_head + task.alloc_size
              /\ pd_mem' = [i \in 1 .. pd_head + task.alloc_size |->
                              IF i <= Len(pd_mem) THEN pd_mem[i] ELSE 0]
              /\ last' = last
      /\ UNCHANGED <<num_parameters, params, added, pd_format>>
      /\ AddRest

\* rdm_pd_add_alias looks for its base and takes the pointer from it.
AddAlias(t, gbase) ==
  LET task == ctask[t]
      apdi == PdFind(PdState, task.alias)
      found == apdi < num_parameters
  IN  /\ task.pc = "alias"
      /\ found => gbase = "miss"
      /\ IF ~found /\ gbase = "miss" THEN AddReturn(t, NoData, "nobase")
         ELSE IF found /\ params[apdi].alloc_size < task.offset
              THEN AddReturn(t, NoData, "badoffset")
         ELSE /\ ctask' = [ctask EXCEPT
                             ![t].pd = IF found
                                       THEN PdAliasData(params[apdi].data, task.offset)
                                       ELSE WildData,
                             ![t].pc = "write"]
              /\ last' = last
      /\ UNCHANGED <<num_parameters, params, pd_head, added, pd_mem, pd_format>>
      /\ AddRest

\* The table write at the index the search left in pdi, and
\* ++driver->num_parameters; no critical section holds them.
AddWrite(t) ==
  LET task == ctask[t]
      entry == [pid |-> task.pid, data |-> task.pd, alloc_size |-> task.alloc_size,
                kind |-> CASE task.op = "add_new" -> "new"
                           [] task.op = "add_alias" -> "alias"
                           [] OTHER -> "det"]
      s == PdAppend(PdState, task.pdi, entry)
  IN  /\ task.pc = "write"
      /\ params' = s.params
      /\ num_parameters' = s.num
      /\ pd_format' = [pd_format EXCEPT ![task.pdi] = <<"b">>]
      /\ added' = Append(added, task.pid)
      /\ AddReturn(t, IF task.op = "add_deterministic" THEN 1 ELSE task.pd, "ok")
      /\ UNCHANGED <<pd_head, pd_mem>>
      /\ AddRest


\* rdm_pd_set: the number of bytes written, or WildData when the parameter's
\* pointer is not one into the parameter heap and the copy writes elsewhere.
rdm_pd_set(s, pid, size) ==
  LET pdi == PdFind(s, pid)
  IN  IF size = 0 THEN 0
      ELSE IF pdi = s.num THEN 0
      ELSE IF s.params[pdi].data = NoData THEN 0
      ELSE IF s.params[pdi].data = WildData THEN WildData
      ELSE size

\* An enqueue that did not look for the PID in the queue.
QueuePushAlways(queue, pid) ==
  IF Len(queue) < RDM_RESPONDER_QUEUE_SIZE_MAX THEN Append(queue, pid) ELSE queue
\* memcpy(pd, data, size) in rdm_pd_set: the parameter heap after the call
\* has copied the first `written` of the caller's bytes to the parameter.
PdCopy(s, mem, pid, bytes, written) ==
  LET pd == IF written > 0 THEN s.params[PdFind(s, pid)].data ELSE 0
  IN  [i \in 1 .. Len(mem) |->
         IF written > 0 /\ pd < i /\ i <= pd + written THEN bytes[i - pd] ELSE mem[i]]

\* The enqueue of rdm_pd_set_and_queue.
QueuePush(queue, pid) ==
  IF Len(queue) < RDM_RESPONDER_QUEUE_SIZE_MAX /\ \A i \in 1 .. Len(queue) : queue[i] # pid
  THEN Append(queue, pid)
  ELSE queue

\* A call of rdm_pd_set_and_queue on port 0.
PdSetAndQueue(pid, sub_device, bytes, size) ==
  /\ fault = "none"
  /\ UNCHANGED <<flagVars, cfgVars, raceVars, extVars>>
  /\ IF ~dmx_driver_is_installed(0) THEN PdAbort("set_and_queue")
     ELSE IF sub_device # 0 THEN PdNotRoot("set_and_queue")
     ELSE
       LET written == rdm_pd_set(PdState, pid, size)
       IN  IF written = WildData THEN
             /\ fault' = "wild_pointer"
             /\ last' = Call("set_and_queue", 0, pid, NoData, "wild_pointer")
             /\ UNCHANGED <<dmx_driver, ptr, pdVars>>
           ELSE
             /\ rdm_queue' = IF written > 0 THEN QueuePush(rdm_queue, pid) ELSE rdm_queue
             /\ rdm_queue_size' = Len(rdm_queue')
             /\ pd_mem' = PdCopy(PdState, pd_mem, pid, bytes, written)
             /\ last' = Call("set_and_queue", 0, pid, written,
                             IF written > 0 THEN "ok" ELSE "nothing")
             /\ UNCHANGED <<lifeVars, num_parameters, params, pd_head,
                            pd_alloc_size, added, pd_format>>

\* A call of rdm_pd_set on port 0 with size bytes of the caller's data.
PdSet(pid, sub_device, bytes, size) ==
  /\ fault = "none"
  /\ UNCHANGED <<flagVars, cfgVars, raceVars, extVars>>
  /\ IF ~dmx_driver_is_installed(0) THEN PdAbort("set")
     ELSE IF sub_device # 0 THEN PdNotRoot("set")
     ELSE
       LET written == rdm_pd_set(PdState, pid, size)
       IN  IF written = WildData THEN
             /\ fault' = "wild_pointer"
             /\ last' = Call("set", 0, pid, NoData, "wild_pointer")
             /\ UNCHANGED <<dmx_driver, ptr, pdVars>>
           ELSE
             /\ pd_mem' = PdCopy(PdState, pd_mem, pid, bytes, written)
             /\ last' = Call("set", 0, pid, written,
                             IF written > 0 THEN "ok" ELSE "nothing")
             /\ UNCHANGED <<lifeVars, num_parameters, params, pd_head, pd_alloc_size,
                            rdm_queue_size, rdm_queue, added, pd_format>>

\* The formats the callers pass: one or two fixed-size fields, with and
\* without the end anchor, formats that end in a string or an optional UID,
\* and one that is not well formed.
EncFormats ==
  LET fixed == {<<"b">>, <<"w">>, <<"d">>, <<"u">>,
                <<"b", "w">>, <<"w", "d">>, <<"d", "u">>, <<"u", "b">>}
  IN  fixed \cup {Append(f, "$") : f \in fixed}
        \cup {<<"a">>, <<"b", "a", "$">>, <<"v">>, <<"w", "v", "$">>, <<"a", "b">>}

\* The calls: the length is that of one instance of the format, one byte
\* more, or that of two or three instances, and the source holds len bytes:
\* a ramp without a zero byte, zero bytes only, or (for a string) three
\* bytes of text and then zero bytes.
EncInputs ==
  LET shape == {in \in [format : EncFormats, k : {0, 1}, n : 1 .. 3,
                        bytes : {"ramp", "zero", "text"}] :
                  /\ (in.n > 1 => in.k = 0)
                  /\ (in.bytes = "text" =>
                        \E i \in 1 .. Len(in.format) : in.format[i] = "a")
                  /\ (rdm_pd_get_size(in.format) = 0 =>
                        in.n = 1 /\ in.k = 1 /\ in.bytes = "zero")}
      len(in) == in.n * rdm_pd_get_size(in.format) + in.k
  IN  {[format |-> in.format, len |-> len(in),
        source |-> [i \in 1 .. len(in) |->
                      CASE in.bytes = "ramp" -> (i % 3) + 1
                        [] in.bytes = "zero" -> 0
                        [] OTHER -> IF i <= 3 THEN i ELSE 0]] : in \in shape}

\* A call of rdm_pd_serialize (encode_nulls false) or rdm_pd_deserialize
\* (true). A chained call reads the buffer the call before wrote to, a
\* buffer of len bytes that held zeros.
PdEncode(encode_nulls, len, format, source, chained) ==
  LET src == IF chained
             THEN [i \in 1 .. enc.len |-> IF i <= Len(enc.out) THEN enc.out[i] ELSE 0]
             ELSE source
      res == rdm_pd_encode(len, format, src, encode_nulls)
      op == IF encode_nulls THEN "deserialize" ELSE "serialize"
  IN  /\ fault = "none"
      /\ chained => /\ enc.op \in {"serialize", "deserialize"} /\ enc.op # op
                    /\ ~enc.chained
                    /\ len = enc.len /\ format = enc.format
      /\ enc' = EncCall(op, len, format, src, res, chained)
      /\ fault' = IF res.ret = NoData THEN "assert" ELSE "none"
      /\ UNCHANGED <<dmx_driver, ptr, flagVars, cfgVars, pdVars, raceVars, resp, ctlVars, portVars, isrVars, last>>

\* rdm_response_handler_simple for the parameter at table index pdi, with the
\* request's parameter data pd (header->pdl is its length): the response
\* type, the parameter data buffer after the call and the parameter heap
\* after it. fault is "assert" when an assertion of the encoding functions
\* fails (a NULL source, a format without size) and "wild_pointer" when the
\* parameter's pointer is not one into the heap. The NACK reasons are
\* RDM_NR_SUB_DEVICE_OUT_OF_RANGE (9) and RDM_NR_HARDWARE_FAULT (1).
rdm_response_handler_simple(s, mem, cc, pdi, sub_device, pd) ==
  LET format == pd_format[pdi]
      pid == s.params[pdi].pid
      src == s.params[pdi].data
      Answer(type, out, m, f) == [type |-> type, out |-> out, mem |-> m, fault |-> f]
      Over(out) == [i \in 1 .. Len(pd) |-> IF i <= Len(out) THEN out[i] ELSE pd[i]]
  IN  IF sub_device # 0 THEN Answer("NACK_REASON", <<0, 9>>, mem, "none")
      ELSE IF rdm_pd_get_size(format) = 0 THEN Answer("none", pd, mem, "assert")
      ELSE IF cc = "GET" THEN
        IF src = NoData THEN Answer("none", pd, mem, "assert")
        ELSE IF src = WildData THEN Answer("none", pd, mem, "wild_pointer")
        ELSE Answer("ACK",
                    rdm_pd_serialize(231, format, SubSeq(mem, src + 1, Len(mem))).out,
                    mem, "none")
      ELSE
        LET pd1 == Over(rdm_pd_deserialize(Len(pd), format, pd).out)
            written == rdm_pd_set(s, pid, Len(pd))
        IN  IF written = WildData THEN Answer("none", pd1, mem, "wild_pointer")
            ELSE IF written = 0 THEN Answer("NACK_REASON", <<0, 1>>, mem, "none")
            ELSE Answer("ACK", pd1, PdCopy(s, mem, pid, pd1, written), "none")

\* rdm_pd_call_response_handler on port 0 for a request with command class
\* cc and parameter data pd; every parameter's definition names
\* rdm_response_handler_simple. The NACK reason of a PID that is not in the
\* table is RDM_NR_UNKNOWN_PID (0).
PdCallResponseHandler(cc, pid, sub_device, pd) ==
  /\ fault = "none"
  /\ UNCHANGED <<dmx_driver, ptr, flagVars, cfgVars, raceVars, enc, ctlVars, portVars, isrVars>>
  /\ UNCHANGED <<num_parameters, params, pd_head, pd_alloc_size, rdm_queue_size,
                 rdm_queue, added, pd_format>>
  /\ IF ~dmx_driver_is_installed(0) THEN
       /\ fault' = "assert"
       /\ last' = Call("handler", 0, pid, NoData, "assert")
       /\ UNCHANGED <<pd_mem, resp>>
     ELSE
       LET pdi == PdFind(PdState, pid)
           ans == IF pdi = num_parameters
                  THEN [type |-> "NACK_REASON", out |-> <<0, 0>>, mem |-> pd_mem,
                        fault |-> "none"]
                  ELSE rdm_response_handler_simple(PdState, pd_mem, cc, pdi, sub_device, pd)
       IN  /\ fault' = ans.fault
           /\ pd_mem' = ans.mem
           /\ resp' = [cc |-> cc, pid |-> pid, sub_device |-> sub_device, pd |-> pd,
                        type |-> ans.type, out |-> ans.out]
           /\ last' = Call("handler", 0, pid, IF ans.type = "ACK" THEN 1 ELSE 0, ans.type)

\* ------------------------------------------------------------- esp_rdm.c
\* The controller's requests on port 0. A UID is modelled with UidBytes
\* bytes instead of six; RDM_MAX_UID is the largest UID a device can have
\* and RDM_BROADCAST_ALL_UID the one above it.

RDM_MAX_UID == 256 ^ UidBytes - 2
RDM_BROADCAST_ALL_UID == 256 ^ UidBytes - 1

\* The header of a request as the functions of esp_rdm.c fill it in: each of
\* them writes .tn = 0.
RequestHeader(cc, pid, destination_uid) ==
  [cc |-> cc, pid |-> pid, tn |-> 0, destination_uid |-> destination_uid]

\* The controller and the line as the requests read and change them.
CtlState == [sent |-> rdm_sent, bus |-> bus, muted |-> muted, found |-> uids,
             response |-> response, uid |-> 0, trace |-> trace]

\* One step of a discovery, as the trace keeps it: a request with the error
\* and the number of parameters of its response, a branch taken from the
\* stack or put on it with the stack_size it leaves, or a call of cb.
TraceEv(ev, lo, hi, err, n) == [ev |-> ev, lo |-> lo, hi |-> hi, err |-> err, n |-> n]
Traced(c, ev, lo, hi, n) ==
  [c EXCEPT !.trace = Append(@, TraceEv(ev, lo, hi, c.response.err, n))]

\* bswap64(uid) >> 16 on a UID of n bytes.
RECURSIVE FlipUid(_, _)
FlipUid(uid, n) == IF n = 0 THEN 0
                   ELSE (uid % 256) * 256 ^ (n - 1) + FlipUid(uid \div 256, n - 1)

\* rdm_send_disc_unique_branch. The responders that answer are the ones on
\* the line that are not muted and whose UID is within the branch. With none
\* of them the receive times out; the answers of two or more arrive as a
\* collision error (garble "clash"), as bytes whose checksum fails ("crc"),
\* or with the answer of the lowest UID received whole ("capture").
\* The record of the request keeps its parameter data, the bounds of the
\* branch, and (ghost) how it was answered.
rdm_send_disc_unique_branch(c, branch, garble) ==
  LET answering == {u \in c.bus \ c.muted :
                      branch.lower_bound <= u /\ u <= branch.upper_bound}
      packet == CASE answering = {} -> [err |-> "TIMEOUT", read |-> 0]
                  [] Cardinality(answering) > 1 /\ garble = "clash" ->
                       [err |-> "DATA_COLLISION", read |-> 0]
                  [] OTHER -> [err |-> "OK", read |-> 24]
      decoded == Cardinality(answering) = 1 \/ garble = "capture"
      answer == IF packet.err # "OK" THEN packet.err
                ELSE IF decoded THEN "OK" ELSE "INVALID_CRC"
      c1 == [c EXCEPT !.sent = Append(@,
               RequestHeader("DISC", "DISC_UNIQUE_BRANCH", RDM_BROADCAST_ALL_UID)
                 @@ [lower_bound |-> branch.lower_bound,
                     upper_bound |-> branch.upper_bound, answer |-> answer])]
      c2 == IF packet.err # "OK"
            THEN [c1 EXCEPT !.response.err = packet.err, !.response.num_params = 0]
            ELSE IF packet.read = 0 THEN [c1 EXCEPT !.response.num_params = 0]
            ELSE IF ~decoded
            THEN [c1 EXCEPT !.response.err = "INVALID_CRC", !.response.type = "NONE",
                            !.response.num_params = 0]
            ELSE [c1 EXCEPT !.response.err = "OK", !.response.type = "ACK",
                            !.response.num_params = 1,
                            !.uid = CHOOSE u \in answering :
                                      \A v \in answering : u <= v]
  IN  Traced(c2, "branch", branch.lower_bound, branch.upper_bound,
             c2.response.num_params)

\* rdm_send_disc_mute: a broadcast is not answered; the responder with the
\* UID mutes or un-mutes itself and answers ACK with its control field, which
\* rdm_decode_mute counts as one parameter (binding_uid 0). Its answer
\* arrives whole ("ack"), with a checksum that does not match ("crc"), or as
\* a packet the driver received with an error ("err").
rdm_send_disc_mute(c, uid, mute, answer) ==
  LET hit == IF uid = RDM_BROADCAST_ALL_UID THEN c.bus ELSE {uid} \cap c.bus
      c1 == [c EXCEPT !.sent = Append(@, RequestHeader("DISC",
                                 IF mute THEN "DISC_MUTE" ELSE "DISC_UN_MUTE", uid)),
                      !.muted = IF mute THEN @ \cup hit ELSE @ \ hit,
                      !.response.err = "OK", !.response.type = "NONE",
                      !.response.num_params = 0]
      c2 == IF uid = RDM_BROADCAST_ALL_UID THEN c1
            ELSE IF hit = {} THEN [c1 EXCEPT !.response.err = "TIMEOUT"]
            ELSE IF answer = "err" THEN [c1 EXCEPT !.response.err = "IMPROPER_SLOT"]
            ELSE IF answer = "crc"
            THEN [c1 EXCEPT !.response.err = "INVALID_CRC", !.response.num_params = 1]
            ELSE [c1 EXCEPT !.response.num_params = 1]
  IN  Traced(c2, IF mute THEN "mute" ELSE "un_mute", uid, uid, c2.response.num_params)

\* The depth of the instruction stack: 49 for UIDs of six bytes.
StackLen == 8 * UidBytes + 1

\* A split that leaves the branch it was given in its slot.
SplitBranchKept(b) ==
  <<b, [lower_bound |-> b.lower_bound,
        upper_bound |-> (b.lower_bound + b.upper_bound) \div 2]>>

\* The two branches the split puts on the stack, the upper one first. The
\* upper one is written into the slot the branch was taken from, whose
\* upper_bound it keeps.
SplitBranch(b) ==
  LET lower_bound == b.lower_bound
      mid == (lower_bound + b.upper_bound) \div 2
  IN  <<[b EXCEPT !.lower_bound = mid + 1],
        [lower_bound |-> lower_bound, upper_bound |-> mid]>>

\* rdm_discover_with_callback, one pass of while (stack_size > 0): the state
\* of the controller and of the line after it, and the stack it leaves. The
\* quick-find pass is compiled in unless the build defines
\* CONFIG_RDM_DEBUG_DEVICE_DISCOVERY (debug).
rdm_discover_with_callback(c, stack, garble, answer, debug) ==
  LET \* do { send } while (response.num_params == 0 && ++attempts < 3);
      Try(Send(_), x) ==
        LET c1 == Send(x)
            c2 == Send(c1)
        IN  IF c1.response.num_params > 0 THEN c1
            ELSE IF c2.response.num_params > 0 THEN c2 ELSE Send(c2)
      TryBranch(x, b) ==
        LET Send(y) == rdm_send_disc_unique_branch(y, b, garble) IN Try(Send, x)
      TryMute(x, uid) ==
        LET Send(y) == rdm_send_disc_mute(y, uid, TRUE, answer) IN Try(Send, x)
      \* cb(dmx_num, uid, num_found, context); ++num_found;
      Cb(x, uid) == [Traced(x, "cb", uid, uid, Len(x.found))
                       EXCEPT !.found = Append(@, uid)]
      Flip(uid, n) == FlipUid(uid, n)
      Leaf(x, uid) ==
        LET c1 == TryMute(x, uid)
            flipped == c1.response.num_params = 0
            c2 == IF flipped
                  THEN rdm_send_disc_mute(c1, Flip(uid, UidBytes), TRUE, answer)
                  ELSE c1
        IN  IF c2.response.num_params > 0 /\ c2.response.err = "OK"
            THEN Cb(c2, IF flipped THEN Flip(uid, UidBytes) ELSE uid)
            ELSE c2
      \* One pass of the quick-find loop, which leaves the loop either way.
      QuickFind(x, b) ==
        LET c1 == TryMute(x, x.uid)
            c2 == IF c1.response.num_params > 0 THEN Cb(c1, x.uid) ELSE c1
        IN  TryBranch(c2, b)
      Pop(x, b, stack_size) ==
        Traced(x, "pop", b.lower_bound, b.upper_bound, stack_size)
      Push(x, b, stack_size) ==
        Traced(x, "push", b.lower_bound, b.upper_bound, stack_size)
      \* rdm_disc_unique_branch_t *branch = &stack[--stack_size];
      b == stack[Len(stack)]
      rest == SubSeq(stack, 1, Len(stack) - 1)
      c0 == Pop(c, b, Len(rest))
  IN  IF b.lower_bound = b.upper_bound
      THEN [c |-> Leaf(c0, b.lower_bound), stack |-> rest]
      ELSE
        LET c1 == TryBranch(c0, b)
            quick == ~debug /\ c1.response.err = "OK"
            c2 == IF quick THEN QuickFind(c1, b) ELSE c1
            devices_remaining ==
              IF quick
              THEN c2.response.num_params > 0 /\ c2.response.err # "OK"
              ELSE TRUE
            halves == SplitBranch(b)
        IN  IF c1.response.num_params = 0 THEN [c |-> c1, stack |-> rest]
            ELSE IF devices_remaining
            THEN [c |-> Push(Push(c2, halves[1], Len(rest) + 1),
                             halves[2], Len(rest) + 2),
                  stack |-> rest \o halves]
            ELSE [c |-> c2, stack |-> rest]

\* The requests leave the driver as it is. The path of a call is the answer
\* it was given, or why it sent nothing.
CtlReturn(c, call) ==
  /\ fault = "none"
  /\ ~disc.active
  /\ disc' = disc
  /\ UNCHANGED <<mux, ctask>>
  /\ rdm_sent' = c.sent
  /\ trace' = c.trace
  /\ bus' = c.bus
  /\ muted' = c.muted
  /\ uids' = c.found
  /\ response' = c.response
  /\ last' = call
  /\ UNCHANGED <<lifeVars, flagVars, cfgVars, pdVars, raceVars, enc, resp, portVars,
                 isrVars>>
CtlCall(op, dmx_num, arg, ret, path, c) ==
  CtlReturn(c, Call(op, dmx_num, arg, ret, path))

\* The controller and the line while a discovery is under way: its response
\* and uid are locals of rdm_discover_with_callback, kept in disc.
DiscState == [CtlState EXCEPT !.response = disc.response, !.uid = disc.uid]
DiscUpdate(c, d) ==
  /\ rdm_sent' = c.sent
  /\ trace' = c.trace
  /\ bus' = c.bus
  /\ muted' = c.muted
  /\ uids' = c.found
  /\ disc' = d
  /\ UNCHANGED <<lifeVars, flagVars, cfgVars, pdVars, raceVars, enc, resp, portVars,
                 isrVars, response, mux, ctask>>

\* rdm_discover_with_callback(dmx_num, cb, context) with the responders of
\* `line` on the line, up to the first test of while (stack_size > 0): the
\* broadcast un-mute, whose response is NULL, and the initial branch. The
\* call is recorded with the build it was made in (1 for the debug build).
RdmDiscover(dmx_num, line, garble, answer, debug) ==
  /\ Len(rdm_sent) < MaxSent
  /\ IF ~dmx_driver_is_installed(dmx_num)
     THEN CtlCall("discover", dmx_num, 0, 0, "not_installed", CtlState)
     ELSE LET c == rdm_send_disc_mute(
                     [CtlState EXCEPT !.bus = line, !.muted = @ \cap line,
                                      !.found = <<>>, !.trace = <<>>],
                     RDM_BROADCAST_ALL_UID, FALSE, answer)
          IN  /\ fault = "none"
              /\ ~disc.active
              /\ DiscUpdate(c, [active |-> TRUE, garble |-> garble, answer |-> answer,
                                debug |-> debug, response |-> c.response, uid |-> 0,
                                stack |-> <<[lower_bound |-> 0,
                                             upper_bound |-> RDM_MAX_UID]>>])
              /\ last' = Call("discover", dmx_num, IF debug THEN 1 ELSE 0, 0, "searching")

\* One pass of the loop of rdm_discover_with_callback.
DiscStep ==
  /\ disc.active
  /\ disc.stack # <<>>
  /\ LET r == rdm_discover_with_callback(DiscState, disc.stack, disc.garble,
                                         disc.answer, disc.debug)
     IN  DiscUpdate(r.c, [disc EXCEPT !.stack = r.stack, !.response = r.c.response,
                                      !.uid = r.c.uid])
  /\ UNCHANGED last

\* The loop of rdm_discover_with_callback ends and the call returns num_found.
DiscReturn ==
  /\ disc.active
  /\ disc.stack = <<>>
  /\ DiscUpdate(DiscState, NoDisc)
  /\ last' = Call("discover", last.port, last.arg, Len(uids), "ok")

\* The record of a call of rdm_get_identify_device: check is what the
\* validation of the response's header found, before the value the caller's
\* identify_state held at the call and out the value it holds at the return.
GetCall(dmx_num, uid, ret, answer, check, before, out) ==
  Call("get_identify", dmx_num, uid, ret, answer)
    @@ [check |-> check, before |-> before, out |-> out]

\* response->err after rdm_decode_header and the tests of the checksum and
\* of the destination UID.
HeaderErr(check) ==
  CASE check = "crc" -> "INVALID_CRC"
    [] check = "dest" -> "INVALID_ARG"
    [] OTHER -> "OK"

\* rdm_get_identify_device(dmx_num, uid, 0, &response, &identify_state), which
\* the responder answers with `answer`: no packet ("TIMEOUT"), or a packet
\* with the response type, with the byte of an ACK and the 16-bit value of
\* an ACK_TIMER or NACK_REASON in `value`; its header decodes, and check
\* says whether its checksum is wrong ("crc") or its destination is another
\* UID than the port's ("dest"). identify_state holds `before` at the call.
\* response->timer is kept as the milliseconds given to pdMS_TO_TICKS.
RdmGetIdentifyDevice(dmx_num, uid, answer, value, check, before) ==
  /\ Len(rdm_sent) < MaxSent
  /\ IF ~dmx_driver_is_installed(dmx_num) \/ uid = RDM_BROADCAST_ALL_UID
     THEN CtlReturn(CtlState, GetCall(dmx_num, uid, 0, "rejected", check, before, before))
     ELSE
       LET c == [CtlState EXCEPT !.sent = Append(@, RequestHeader("GET",
                                                   RDM_PID_IDENTIFY_DEVICE, uid))]
           r == c.response
           err == HeaderErr(check)
           r1 == CASE answer = "TIMEOUT" ->
                        [r EXCEPT !.err = "TIMEOUT", !.num_params = 0]
                   [] answer = "ACK" ->
                        [r EXCEPT !.err = err, !.type = "ACK", !.num_params = 1]
                   [] answer = "ACK_TIMER" ->
                        [r EXCEPT !.err = err, !.type = "ACK_TIMER",
                                  !.timer = value * 10]
                   [] answer = "NACK_REASON" ->
                        [r EXCEPT !.err = err, !.type = "NACK_REASON",
                                  !.nack_reason = value]
                   [] OTHER ->
                        [r EXCEPT !.err = "INVALID_RESPONSE", !.type = answer]
           out == IF answer = "ACK" THEN value # 0 ELSE before
       IN  CtlReturn([c EXCEPT !.response = r1],
                     GetCall(dmx_num, uid, IF answer = "ACK" THEN 1 ELSE 0, answer,
                             check, before, out))

\* ------------------------------------------------- the driver's mutex
\* The controller's entry points and dmx_driver_delete on port 0, called by
\* the tasks of Tasks, one step at a time: the checks, the read of
\* dmx_driver[dmx_num], the take of driver->mux, the body, the give.

\* The entry points: rdm_send_disc_response, rdm_send_disc_mute,
\* rdm_get_device_info, rdm_discover_with_callback.
MuxOps == {"disc_response", "disc_mute", "get_device_info", "discover"}
\* The requests rdm_discover_with_callback sends in the model.
DiscoverSends == 2

\* A give that leaves the mutex with its holder.
GiveNothing(m, t) == m
\* xSemaphoreTakeRecursive by task t, when the mutex is free or t's.
xSemaphoreTakeRecursive(m, t) == [holder |-> t, count |-> m.count + 1]
\* xSemaphoreGiveRecursive by task t, which holds the mutex.
xSemaphoreGiveRecursive(m, t) ==
  IF m.count = 1 THEN NoHolder ELSE [m EXCEPT !.count = @ - 1]

\* What the steps of the tasks leave alone.
MuxStep(t, task) ==
  /\ fault = "none"
  /\ ctask' = [ctask EXCEPT ![t] = task]
  /\ UNCHANGED <<flagVars, cfgVars, pdVars, raceVars, enc, resp, portVars, isrVars,
                 rdm_sent, bus, muted, uids, response, trace, disc>>

\* driver->mux read through the task's pointer: "null" when the pointer is
\* NULL, "freed" when the driver it points to was freed.
MuxRead(t) ==
  IF ctask[t].driver = NULL THEN "null"
  ELSE IF ctask[t].driver # dmx_driver \/ ptr["driver"] # "live" THEN "freed"
  ELSE "live"

\* The entry of a controller call: RDM_CHECK(dmx_num < DMX_NUM_MAX),
\* RDM_CHECK(dmx_driver_is_installed(dmx_num)), the check of the other
\* arguments (args_ok) and the malloc of the discovery's stack (alloc_ok).
MuxCall(t, op, dmx_num, args_ok, alloc_ok) ==
  /\ ctask[t].pc = "idle"
  /\ IF ~dmx_driver_is_installed(dmx_num) \/ ~args_ok \/ ~alloc_ok
     THEN /\ MuxStep(t, [NoTask EXCEPT !.op = op])
          /\ last' = Call(op, dmx_num, t, 0, "rejected")
     ELSE /\ MuxStep(t, [NoTask EXCEPT !.op = op, !.pc = "checked"])
          /\ UNCHANGED last
  /\ UNCHANGED <<lifeVars, mux>>

\* dmx_driver_t *const driver = dmx_driver[dmx_num];
MuxLoad(t) ==
  /\ ctask[t].pc \in {"checked", "d_checked"}
  /\ MuxStep(t, [ctask[t] EXCEPT !.driver = dmx_driver,
                                 !.pc = IF @ = "checked" THEN "loaded" ELSE "d_loaded"])
  /\ UNCHANGED <<lifeVars, mux, last>>

\* xSemaphoreTakeRecursive(driver->mux, portMAX_DELAY); the task waits while
\* another task holds the mutex.
MuxTake(t) ==
  /\ ctask[t].pc \in {"loaded", "nested"}
  /\ IF MuxRead(t) # "live"
     THEN /\ fault' = IF MuxRead(t) = "null" THEN "null_driver" ELSE "use_after_free"
          /\ ctask' = ctask
          /\ last' = Call(ctask[t].op, 0, t, 0 - 1, fault')
          /\ UNCHANGED <<dmx_driver, ptr, mux, flagVars, cfgVars, pdVars, raceVars, enc,
                         resp, portVars, isrVars, rdm_sent, bus, muted, uids, response,
                         trace, disc>>
     ELSE /\ mux.holder \in {0, t}
          /\ mux' = xSemaphoreTakeRecursive(mux, t)
          /\ MuxStep(t, [ctask[t] EXCEPT !.took = @ + 1,
                                         !.pc = IF @ = "loaded" THEN "body"
                                                ELSE "nested_body"])
          /\ UNCHANGED <<lifeVars, last>>

\* The body of a call: rdm_discover_with_callback calls rdm_send_disc_mute
\* and rdm_send_disc_unique_branch, which pass their own checks on the
\* installed port and take the mutex again; the others go on to the give.
MuxBody(t) ==
  /\ ctask[t].pc = "body"
  /\ MuxStep(t, IF ctask[t].op = "discover" /\ ctask[t].sends < DiscoverSends
                THEN [ctask[t] EXCEPT !.pc = "nested", !.sends = @ + 1]
                ELSE [ctask[t] EXCEPT !.pc = "give"])
  /\ UNCHANGED <<lifeVars, mux, last>>

\* xSemaphoreGiveRecursive(driver->mux); return.
MuxGive(t) ==
  /\ ctask[t].pc \in {"give", "nested_body"}
  /\ mux' = xSemaphoreGiveRecursive(mux, t)
  /\ IF ctask[t].pc = "give"
     THEN /\ MuxStep(t, [ctask[t] EXCEPT !.pc = "idle", !.gave = @ + 1])
          /\ last' = Call(ctask[t].op, 0, t, 0, "ok")
     ELSE /\ MuxStep(t, [ctask[t] EXCEPT !.pc = "body", !.gave = @ + 1])
          /\ UNCHANGED last
  /\ UNCHANGED lifeVars

\* dmx_driver_delete: DMX_CHECK(dmx_driver_is_installed(dmx_num))
DelCheck(t) ==
  /\ ctask[t].pc = "idle"
  /\ IF ~dmx_driver_is_installed(0)
     THEN /\ MuxStep(t, [NoTask EXCEPT !.op = "delete"])
          /\ last' = Call("delete", 0, t, 0, "not_installed")
     ELSE /\ MuxStep(t, [NoTask EXCEPT !.op = "delete", !.pc = "d_checked"])
          /\ UNCHANGED last
  /\ UNCHANGED <<lifeVars, mux>>

\* dmx_driver_delete: if (!xSemaphoreTakeRecursive(driver->mux, 0)) return false;
DelTake(t) ==
  /\ ctask[t].pc = "d_loaded"
  /\ MuxRead(t) = "live"
  /\ IF mux.holder \in {0, t}
     THEN /\ mux' = xSemaphoreTakeRecursive(mux, t)
          /\ MuxStep(t, [ctask[t] EXCEPT !.pc = "d_held", !.took = @ + 1])
          /\ UNCHANGED last
     ELSE /\ mux' = mux
          /\ MuxStep(t, [ctask[t] EXCEPT !.pc = "idle"])
          /\ last' = Call("delete", 0, t, 0, "busy")
  /\ UNCHANGED lifeVars

\* dmx_driver_delete: the timer, the UART, the parameters, the heap, the
\* personalities and the driver are freed; dmx_driver[dmx_num] = NULL.
DelFree(t) ==
  /\ ctask[t].pc = "d_held"
  /\ dmx_driver' = DeleteSlot
  /\ ptr' = [r \in Resources |-> IF ptr[r] = "live" /\ r # "mux" THEN "freed"
                                  ELSE ptr[r]]
  /\ fault' = "none"
  /\ MuxStep(t, [ctask[t] EXCEPT !.pc = "d_freed"])
  /\ UNCHANGED <<mux, last>>

\* dmx_driver_delete: xSemaphoreGiveRecursive(mux); vSemaphoreDelete(mux);
DelGive(t) ==
  /\ ctask[t].pc = "d_freed"
  /\ mux' = xSemaphoreGiveRecursive(mux, t)
  /\ ptr' = [ptr EXCEPT !["mux"] = IF @ = "live" THEN "freed" ELSE @]
  /\ MuxStep(t, [ctask[t] EXCEPT !.pc = "idle", !.gave = @ + 1])
  /\ last' = Call("delete", 0, t, 1, "ok")
  /\ UNCHANGED <<dmx_driver, fault>>

\* ---------------------------------------------------- the device's UID
\* The ports of the device side by side: which of them have a driver, and
\* the UID each of them reports.

\* dmx_driver_install(dmx_num, config, personalities) as the UID sees it.
\* fail is "args" when the configuration is rejected, "alloc" when an
\* allocation after the UID's initialisation fails, else "none". The driver
\* of a new installation has no UID yet.
PortInstall(dmx_num, fail) ==
  LET rejected == dmx_num >= DMX_NUM_MAX \/ fail = "args" \/ dmx_num \in ports
      derive == ~rejected /\ rdm_device_uid = NullUid
      done == ~rejected /\ fail = "none"
  IN  /\ rdm_device_uid' = IF derive
                           THEN [man_id |-> RDM_UID_MANUFACTURER_ID,
                                 dev_id |-> MacDevice]
                           ELSE rdm_device_uid
      /\ rdm_binding_port' = IF derive THEN dmx_num ELSE rdm_binding_port
      /\ ports' = IF done THEN ports \cup {dmx_num} ELSE ports
      /\ rdm_uid' = IF done THEN [rdm_uid EXCEPT ![dmx_num] = NullUid] ELSE rdm_uid
      /\ last' = Call("port_install", dmx_num, 0, IF done THEN 1 ELSE 0, fail)
      /\ UNCHANGED <<lifeVars, flagVars, cfgVars, pdVars, raceVars, enc, resp, ctlVars,
                     isrVars>>

\* dmx_driver_delete(dmx_num)
PortDelete(dmx_num) ==
  /\ ports' = ports \ {dmx_num}
  /\ last' = Call("port_delete", dmx_num, 0, IF dmx_num \in ports THEN 1 ELSE 0, "ok")
  /\ UNCHANGED <<rdm_device_uid, rdm_binding_port, rdm_uid>>
  /\ UNCHANGED <<lifeVars, flagVars, cfgVars, pdVars, raceVars, enc, resp, ctlVars,
                     isrVars>>

\* rdm_get_uid(dmx_num): the value returned is rdm_uid'[dmx_num], or null
\* for a port without driver. MacDevice + dmx_num is below 2^32, so that
\* the mask with 0xffffffff changes nothing; RDM_DEFAULT_MAN_ID is taken to
\* be the manufacturer ID of struct.h.
RdmGetUid(dmx_num) ==
  LET ok == dmx_num < DMX_NUM_MAX /\ dmx_num \in ports
      uid == IF rdm_uid[dmx_num] = NullUid
             THEN [man_id |-> RDM_UID_MANUFACTURER_ID, dev_id |-> MacDevice + dmx_num]
             ELSE rdm_uid[dmx_num]
  IN  /\ rdm_uid' = IF ok THEN [rdm_uid EXCEPT ![dmx_num] = uid] ELSE rdm_uid
      /\ last' = Call("get_uid", dmx_num, 0, IF ok THEN uid.dev_id ELSE 0,
                      IF ok THEN "ok" ELSE "rejected")
      /\ UNCHANGED <<ports, rdm_device_uid, rdm_binding_port>>
      /\ UNCHANGED <<lifeVars, flagVars, cfgVars, pdVars, raceVars, enc, resp, ctlVars,
                     isrVars>>

\* ----------------------------------------------------- impl/intr_handlers.h
\* The interrupt handlers of a port whose driver is installed. The frames
\* sent are RDM requests, and the timer runs from TX_DONE until its handler
\* pauses it.

\* An event given to xQueueSendFromISR(driver->rx.queue, ...); source_uid is
\* event.rdm.source_uid, NullUid where the handler does not set it.
RdmEvent(status, size, source_uid) ==
  [status |-> status, size |-> size, source_uid |-> source_uid]
IsrEvent(status, size) == RdmEvent(status, size, NullUid)

\* a & b and a | b of two bytes
RECURSIVE BitAnd(_, _)
BitAnd(a, b) ==
  IF a = 0 \/ b = 0 THEN 0
  ELSE (a % 2) * (b % 2) + 2 * BitAnd(a \div 2, b \div 2)
BitOr(a, b) == a + b - BitAnd(a, b)

\* SWAP16(x): ((uint16_t)x << 8 | (uint16_t)x >> 8), the value a uint16_t
\* receives. The casts bind to x alone, so that the left shift is done in
\* int and the result is cut to 16 bits by the assignment.
SWAP16(x) == BitOr((x % 65536) * 256, (x % 65536) \div 256) % 65536

\* uidcpy(buf): the six bytes of buf, most significant first, as the bytes
\* val[0 .. 5] of a little-endian uint64_t, and the UID that value is.
uidcpy(buf) == [i \in 0 .. 5 |-> buf[5 - i]]
UidOf(val) ==
  [man_id |-> val[5] * 256 + val[4],
   dev_id |-> ((val[3] * 256 + val[2]) * 256 + val[1]) * 256 + val[0]]

\* driver->buffer[i]; a slot that was never written holds what the
\* allocation left there, taken as 0.
Slot(buf, i) == IF i \in DOMAIN buf THEN buf[i] ELSE 0

\* The event of a complete DISC_UNIQUE_BRANCH response of slot_idx slots in
\* buf, whose delimiter is slot preamble_len.
DiscRespEvent(buf, idx, preamble_len) ==
  LET data_start == preamble_len + 1
      decoded_data == [j \in 0 .. 7 |->
                         BitOr(BitAnd(Slot(buf, data_start + 2 * j), 85),
                               BitAnd(Slot(buf, data_start + 2 * j + 1), 170))]
      RECURSIVE Sum(_)
      Sum(n) == IF n = 0 THEN 0 ELSE Sum(n - 1) + Slot(buf, data_start + n - 1)
      calculated_sum == Sum(12) % 65536
      checksum == SWAP16(decoded_data[6])
  IN  IF calculated_sum = checksum
      THEN RdmEvent("OK", idx, UidOf(uidcpy(decoded_data)))
      ELSE IsrEvent("INVALID_CHECKSUM", idx)


\* What every handler leaves alone, and the record of the call: the events
\* it posted (none or one), as the status ("none") and the size of the event.
IsrCall(op, posted) ==
  /\ fault = "none"
  /\ last' = IF posted = <<>> THEN Call(op, 0, 0, 0, "none")
             ELSE Call(op, 0, 0, posted[1].size, posted[1].status)
  /\ rx_queue' = IF op = "RX_BREAK" \/ op = "TX_DONE" THEN <<>> ELSE rx_queue \o posted
  /\ UNCHANGED <<lifeVars, flagVars, cfgVars, pdVars, raceVars, enc, resp, ctlVars,
                 portVars>>

\* dmx_intr_handler, DMX_INTR_RX_FIFO_OVERFLOW (status DMX_ERR_DATA_OVERFLOW)
\* and DMX_INTR_RX_FRAMING_ERR (DMX_ERR_IMPROPER_SLOT), with rxfifo_len bytes
\* in the FIFO.
RxError(status, rxfifo_len) ==
  /\ rx_ena
  /\ rx_frame.slots + rxfifo_len <= MaxFrame
  /\ status \notin rx_frame.errs
  /\ IF slot_idx > 0 - 1
     THEN /\ event_sent' = TRUE
          /\ slot_idx' = 0 - 1
          /\ IsrCall(status, <<IsrEvent(status, slot_idx + Len(rx_frame.left)
                                                  + rxfifo_len)>>)
     ELSE /\ UNCHANGED <<event_sent, slot_idx>>
          /\ IsrCall(status, <<>>)
  /\ rx_frame' = [rx_frame EXCEPT !.slots = @ + rxfifo_len, !.errs = @ \cup {status},
                                  !.left = <<>>]
  /\ UNCHANGED <<size_guess, awaiting_response, buffer, mode, rx_ena, tx>>

\* dmx_intr_handler, DMX_INTR_RX_BREAK. The frame that was on the line ends.
RxBreak ==
  LET posted ==
        IF ~event_sent THEN <<IsrEvent("OK", slot_idx)>>
        ELSE IF slot_idx > 0 - 1 /\ slot_idx > DMX_PACKET_SIZE_MAX
        THEN <<IsrEvent("PACKET_SIZE", slot_idx)>>
        ELSE IF slot_idx > 0 - 1 /\ slot_idx > RxBufSize
        THEN <<IsrEvent("BUFFER_SIZE", slot_idx)>>
        ELSE <<>>
  IN  /\ rx_ena
      /\ size_guess' = IF ~event_sent THEN slot_idx ELSE size_guess
      /\ slot_idx' = 0
      /\ event_sent' = FALSE
      /\ rx_frame' = [NoFrame EXCEPT !.open = TRUE, !.prev = rx_frame.errs]
      /\ UNCHANGED <<awaiting_response, buffer, mode, rx_ena, tx>>
      /\ IsrCall("RX_BREAK", posted)

\* A read of the whole FIFO, whatever room the buffer has.
RdLenAll(slots_rem, rxfifo_len) == rxfifo_len
\* int rd_len = slots_rem > rxfifo_len ? rxfifo_len : slots_rem;
RdLen(slots_rem, rxfifo_len) == IF slots_rem > rxfifo_len THEN rxfifo_len ELSE slots_rem

\* The bytes the RX_DATA handler leaves in the FIFO: dmx_hal_read_rxfifo
\* takes rd_len of them, dmx_hal_rxfifo_rst all.
RxFifoLeft(fifo, buf_size) ==
  IF slot_idx > 0 - 1 /\ slot_idx < buf_size
  THEN SubSeq(fifo, RdLen(buf_size - slot_idx, Len(fifo)) + 1, Len(fifo))
  ELSE <<>>

\* dmx_intr_handler, DMX_INTR_RX_DATA with the bytes of `fifo` in the FIFO
\* of a driver whose buffer has buf_size slots.
RxDataBuf(fifo, buf_size) ==
  LET rxfifo_len == Len(fifo)
      slots_rem == buf_size - slot_idx
      reads == slot_idx > 0 - 1 /\ slot_idx < buf_size
      rd_len == RdLen(slots_rem, rxfifo_len)
      idx == IF reads THEN slot_idx + rd_len
             ELSE IF slot_idx > 0 - 1 THEN slot_idx + rxfifo_len ELSE slot_idx
      buf == [i \in DOMAIN buffer \cup {j \in slot_idx .. idx - 1 : reads} |->
                IF reads /\ slot_idx <= i /\ i < idx THEN fifo[i - slot_idx + 1]
                ELSE buffer[i]]
      sc == buf[0]
      hits == {k \in 0 .. RDM_PREAMBLE_MAX_LEN : Slot(buf, k) = RDM_DELIMITER}
      preamble_len == IF hits = {} THEN RDM_PREAMBLE_MAX_LEN + 1
                      ELSE CHOOSE k \in hits : \A j \in hits : k <= j
      posted ==
        IF event_sent THEN <<>>
        ELSE IF sc = RDM_SC /\ idx > RDM_MESSAGE_LEN_INDEX
        THEN IF idx = buf[RDM_MESSAGE_LEN_INDEX] + 2
             THEN <<IsrEvent("OK", idx)>> ELSE <<>>
        ELSE IF sc \in {RDM_PREAMBLE, RDM_DELIMITER} /\ idx > RDM_DISCOVERY_RESP_LEN
        THEN IF idx = preamble_len + RDM_DISCOVERY_RESP_LEN
             THEN <<DiscRespEvent(buf, idx, preamble_len)>> ELSE <<>>
        ELSE IF idx = size_guess THEN <<IsrEvent("OK", idx)>>
        ELSE <<>>
      rdm == \/ sc = RDM_SC /\ idx > RDM_MESSAGE_LEN_INDEX
             \/ sc \in {RDM_PREAMBLE, RDM_DELIMITER} /\ idx > RDM_DISCOVERY_RESP_LEN
  IN  /\ rx_ena
      /\ slot_idx' = idx
      /\ buffer' = buf
      /\ event_sent' = (event_sent \/ posted # <<>>)
      /\ rx_ena' = ~(posted # <<>> /\ rdm /\ mode = "WRITE")
      /\ UNCHANGED <<size_guess, awaiting_response, mode, tx>>
      /\ IsrCall("RX_DATA", posted)

\* RX_DATA on a port whose buffer has RxBufSize slots, when the bytes of
\* `fifo` have arrived since the handler ran last.
RxData(fifo) ==
  /\ rx_frame.slots + Len(fifo) <= MaxFrame
  /\ RxDataBuf(rx_frame.left \o fifo, RxBufSize)
  /\ rx_frame' = [rx_frame EXCEPT !.slots = @ + Len(fifo),
                                  !.left = RxFifoLeft(rx_frame.left \o fifo, RxBufSize)]

\* dmx_intr_handler, DMX_INTR_RX_CLASH
RxClash ==
  /\ rx_ena
  /\ UNCHANGED <<slot_idx, event_sent, size_guess, awaiting_response, buffer, mode,
                 rx_ena, rx_frame, tx>>
  /\ IsrCall("RX_CLASH", <<>>)

\* The slots 0 .. Len(frame) - 1 of the buffer hold the bytes of frame.
BufferWith(frame) ==
  [i \in DOMAIN buffer \cup 0 .. Len(frame) - 1 |->
     IF i < Len(frame) THEN frame[i + 1] ELSE buffer[i]]

\* The start of a send, step 1 of the transmit state machine: the caller has
\* filled the buffer with frame and written tx.size, the TX interrupts are
\* off, the line is in BREAK and the timer runs for the length of the BREAK.
\* No response is awaited. kind says what the frame is: "DMX", or the RDM
\* request "GET" (to one responder), "SET_BROADCAST" or "DISC_UNIQUE_BRANCH".
SendStart(kind, frame) ==
  /\ fault = "none"
  /\ ~tx.busy /\ tx.timer = "paused" /\ ~awaiting_response
  /\ buffer' = BufferWith(frame)
  /\ tx' = [NoTx EXCEPT !.size = Len(frame), !.timer = "running", !.kind = kind,
                        !.busy = TRUE]
  /\ slot_idx' = 0 - 1
  /\ mode' = "WRITE"
  /\ rx_ena' = FALSE
  /\ rx_frame' = NoFrame
  /\ UNCHANGED <<event_sent, size_guess, awaiting_response>>
  /\ IsrCall("SEND", <<>>)

\* dmx_hal_write_txfifo: the number of bytes written when wr_len are offered.
TxFifoRoom(wr_len) ==
  IF wr_len < TxFifoLen - tx.fifo THEN wr_len ELSE TxFifoLen - tx.fifo

\* A handler that finds slots left to write whatever it wrote.
TxNeverAllWritten(idx, size) == FALSE
\* if (driver->slot_idx == driver->tx.size): all slots are in the FIFO.
TxAllWritten(idx, size) == idx = size

\* dmx_intr_handler, DMX_INTR_TX_DATA: the TX FIFO has room.
TxData ==
  LET wr_len == TxFifoRoom(tx.size - slot_idx)
      idx == slot_idx + wr_len
  IN  /\ tx.busy /\ tx.data_intr /\ tx.fifo < TxFifoLen
      /\ slot_idx' = idx
      /\ tx' = [tx EXCEPT !.fifo = @ + wr_len,
                          !.wire = @ \o [i \in 1 .. wr_len |-> buffer[slot_idx + i - 1]],
                          !.data_intr = ~TxAllWritten(idx, tx.size)]
      /\ UNCHANGED <<event_sent, size_guess, awaiting_response, buffer, mode, rx_ena,
                     rx_frame>>
      /\ IsrCall("TX_DATA", <<>>)

\* The UART shifts a byte out of the TX FIFO. The handler of TX_DATA runs
\* before the FIFO runs empty: the last byte in the FIFO is sent only when
\* no slot remains to be written.
UartShift ==
  /\ fault = "none"
  /\ tx.busy /\ tx.fifo > 0
  /\ tx.fifo > 1 \/ slot_idx = tx.size
  /\ tx' = [tx EXCEPT !.fifo = @ - 1]
  /\ UNCHANGED <<slot_idx, event_sent, size_guess, awaiting_response, buffer, mode,
                 rx_ena, rx_frame>>
  /\ IsrCall("shift", <<>>)

\* dmx_intr_handler, DMX_INTR_TX_DONE of a transmitter in state t whose
\* frame is in buf.
TxDoneOn(buf, t) ==
  /\ buffer' = buf
  /\ IF buf[0] = RDM_SC
     THEN /\ awaiting_response' = TRUE
          /\ slot_idx' = 0 - 1
          /\ event_sent' = TRUE
          /\ rx_ena' = TRUE
          /\ tx' = [t EXCEPT !.timer = "running", !.data_intr = FALSE,
                             !.done_intr = FALSE, !.busy = FALSE, !.gives = @ + 1]
     ELSE /\ UNCHANGED <<awaiting_response, slot_idx, event_sent, rx_ena>>
          /\ tx' = [t EXCEPT !.done_intr = FALSE, !.busy = FALSE, !.gives = @ + 1]
  /\ rx_frame' = NoFrame
  /\ UNCHANGED size_guess
  /\ IsrCall("TX_DONE", <<>>)

\* TX_DONE: the FIFO is empty and the last byte has been sent. A pending
\* TX_DATA is handled first.
TxDoneIntr ==
  /\ tx.busy /\ tx.done_intr /\ tx.fifo = 0
  /\ ~tx.data_intr
  /\ UNCHANGED mode
  /\ TxDoneOn(buffer, tx)

\* TX_DONE after an RDM request of message length len was sent from the
\* buffer by a driver in DMX_MODE_WRITE: a driver that has received nothing
\* yet, or one whose last request has been answered.
TxDone(len) ==
  /\ ~awaiting_response
  /\ ~rx_frame.open \/ ~rx_ena
  /\ mode' = "WRITE"
  /\ TxDoneOn([buffer EXCEPT ![0] = RDM_SC, ![RDM_MESSAGE_LEN_INDEX] = len],
              [NoTx EXCEPT !.kind = "GET"])

\* dmx_timer_intr_handler
TimerAlarm ==
  /\ tx.timer = "running"
  /\ IF awaiting_response
     THEN /\ event_sent' = TRUE
          /\ awaiting_response' = FALSE
          /\ tx' = [tx EXCEPT !.timer = "paused"]
          /\ UNCHANGED slot_idx
          /\ IsrCall("TIMER", <<IsrEvent("TIMEOUT", slot_idx)>>)
     ELSE IF slot_idx = 0 - 1
     THEN /\ slot_idx' = slot_idx + 1
          /\ tx' = [tx EXCEPT !.alarms = @ + 1]
          /\ UNCHANGED <<event_sent, awaiting_response>>
          /\ IsrCall("TIMER", <<>>)
     ELSE LET wr_len == TxFifoRoom(tx.size)
          IN  /\ slot_idx' = wr_len
              /\ tx' = [tx EXCEPT !.timer = "paused", !.data_intr = TRUE,
                                  !.done_intr = TRUE, !.fifo = @ + wr_len,
                                  !.wire = @ \o [i \in 1 .. wr_len |-> buffer[i - 1]],
                                  !.alarms = @ + 1]
              /\ UNCHANGED <<event_sent, awaiting_response>>
              /\ IsrCall("TIMER", <<>>)
  /\ UNCHANGED <<size_guess, buffer, mode, rx_ena, rx_frame>>

\* The responders whose responses arrive.
LineUids ==
  {[man_id |-> 0, dev_id |-> 6], [man_id |-> RDM_UID_MANUFACTURER_ID, dev_id |-> 1]}

\* The bytes of a DISC_UNIQUE_BRANCH response of the responder uid on the
\* line: preamble_len preamble bytes, the delimiter, each byte b of the UID
\* as b | 0xaa and b | 0x55, and the checksum, the sum of these twelve
\* bytes, encoded alike. bad says which byte of the checksum is off by one.
DiscResponse(uid, preamble_len, bad) ==
  LET d == <<uid.man_id \div 256, uid.man_id % 256,
             uid.dev_id \div 16777216, (uid.dev_id \div 65536) % 256,
             (uid.dev_id \div 256) % 256, uid.dev_id % 256>>
      Pair(b) == <<BitOr(b, 170), BitOr(b, 85)>>
      euid == Pair(d[1]) \o Pair(d[2]) \o Pair(d[3]) \o Pair(d[4]) \o Pair(d[5])
                \o Pair(d[6])
      RECURSIVE Sum(_)
      Sum(n) == IF n = 0 THEN 0 ELSE Sum(n - 1) + euid[n]
      hi == ((Sum(12) \div 256) + (IF bad = "hi" THEN 1 ELSE 0)) % 256
      lo == ((Sum(12) % 256) + (IF bad = "lo" THEN 1 ELSE 0)) % 256
  IN  [i \in 1 .. preamble_len |-> RDM_PREAMBLE] \o <<RDM_DELIMITER>> \o euid
        \o Pair(hi) \o Pair(lo)

\* The bytes of an RDM packet on the line: start code, sub-start code, the
\* message length, body, and the checksum, the sum of the bytes before it,
\* most significant byte first; then the bytes of tail.
RdmPacket(body, bad, tail) ==
  LET msg == <<RDM_SC, 1, 3 + Len(body)>> \o body
      RECURSIVE Sum(_)
      Sum(n) == IF n = 0 THEN 0 ELSE Sum(n - 1) + msg[n]
      sum == (Sum(Len(msg)) + (IF bad = "hi" THEN 256 ELSE IF bad = "lo" THEN 1 ELSE 0))
               % 65536
  IN  msg \o <<sum \div 256, sum % 256>> \o tail

\* A transmitter begins to send the bytes of stream to a port that saw a
\* BREAK and has received no slot after it. It is the first stream the port
\* receives: no slot of the buffer past the message length was written.
LineStart(kind, stream) ==
  /\ fault = "none"
  /\ rx_ena /\ rx_frame.slots = 0 /\ rx_frame.wire = <<>>
  /\ rx_frame.open \/ awaiting_response
  /\ DOMAIN buffer = 0 .. RDM_MESSAGE_LEN_INDEX
  /\ rx_frame' = [rx_frame EXCEPT !.wire = stream]
  /\ last' = Call(kind, 0, Len(stream), 0, "line")
  /\ UNCHANGED <<lifeVars, flagVars, cfgVars, pdVars, raceVars, enc, resp, ctlVars,
                 portVars, slot_idx, event_sent, size_guess, awaiting_response,
                 buffer, mode, rx_ena, rx_queue, tx>>

\* RX_DATA with the next n bytes of the line in the FIFO.
LineData(n) ==
  /\ n \in 1 .. Len(rx_frame.wire)
  /\ RxDataBuf(rx_frame.left \o SubSeq(rx_frame.wire, 1, n), LineBufSize)
  /\ rx_frame' = [rx_frame EXCEPT !.slots = @ + n,
                                  !.left = RxFifoLeft(rx_frame.left
                                             \o SubSeq(rx_frame.wire, 1, n), LineBufSize),
                                  !.wire = SubSeq(@, n + 1, Len(@))]

\* ----------------------------------------------------------- properties

\* The bytes of the parameter heap that the first n table entries own.
RECURSIVE HeapBytes(_)
HeapBytes(n) ==
  IF n = 0 THEN 0
  ELSE HeapBytes(n - 1)
         + (IF params[n - 1].kind = "new" THEN params[n - 1].alloc_size ELSE 0)

\* C1: on an installed port, whenever the ENABLED flag is set exactly one of
\* the flags SENDING and IDLE is set.
C1_EnabledSendingXorIdle ==
  (fault = "none" /\ dmx_driver_is_installed(0)
     /\ DMX_FLAGS_DRIVER_IS_ENABLED \in flags)
  => ((DMX_FLAGS_DRIVER_IS_SENDING \in flags) # (DMX_FLAGS_DRIVER_IS_IDLE \in flags))

\* The state a successful dmx_driver_install leaves when nothing of an
\* earlier installation remains: the table holds only the parameters the
\* install registers, the heap only their bytes, and the queue is empty.
FreshInstall ==
  /\ dmx_driver_is_installed(0)
  /\ num_parameters <= 1
  /\ \A i \in 0 .. num_parameters - 1 : params[i].pid = RDM_PID_IDENTIFY_DEVICE
  /\ pd_head = HeapBytes(num_parameters)
  /\ rdm_queue_size = 0
  /\ rdm_queue = <<>>
  /\ flags = {DMX_FLAGS_DRIVER_IS_ENABLED, DMX_FLAGS_DRIVER_IS_IDLE}
  /\ head = 0 - 1
  /\ tn = 0

\* C3: after dmx_driver_delete returns true the port is not installed, and a
\* following dmx_driver_install on that port (valid arguments, no allocation
\* failing) returns true and leaves a fresh state: no heap bytes, table
\* entries or queued messages of the previous installation.
C3_DeleteThenInstallFresh ==
  [][/\ (last'.op = "delete" /\ last'.port = 0 /\ last'.ret = 1)
          => ~dmx_driver_is_installed(0)'
     /\ (last.op = "delete" /\ last.ret = 1 /\ last'.op = "install"
           /\ last'.port = 0 /\ last'.args = "ok" /\ last'.fail = "none")
        => (last'.ret = 1 /\ FreshInstall')]_vars

\* C3, the case reached: an install succeeded on a port whose driver fields
\* still held the table of a deleted installation.
C3_Witness ==
  /\ last.op = "install" /\ last.ret = 1 /\ last.arg > 1
  /\ FreshInstall

\* The steps of dmx_driver_install that fail after the driver was allocated.
AfterDriverSteps == {"mux", "personalities", "heap", "parameters", "uart", "timer"}

\* C4: when a step of dmx_driver_install fails after the driver object was
\* allocated, install returns false, the port is not installed afterwards
\* and every resource allocated before the failing step was released exactly
\* once.
C4_FailedInstallUnwinds ==
  [][(last'.op = "install" /\ last'.port = 0 /\ last'.args = "ok"
        /\ ~dmx_driver_is_installed(0) /\ last'.fail \in AfterDriverSteps)
     => (/\ fault' = "none"
         /\ last'.ret = 0
         /\ ~dmx_driver_is_installed(0)'
         /\ \A r \in Resources :
              ptr'[r] = IF r \in AllocatedBefore(last'.fail) THEN "freed" ELSE "none")]_vars

\* C7: dmx_driver_disable on an installed port: when SENDING is set it
\* returns false and leaves the flags and both interrupt groups unchanged;
\* otherwise it clears only ENABLED, masks only the RX interrupt group and
\* leaves head, the buffer and the TX interrupts unchanged.
C7_DisableKeepsTransmission ==
  [][(last'.op = "disable" /\ dmx_driver_is_installed(last'.port))
     => IF DMX_FLAGS_DRIVER_IS_SENDING \in flags
        THEN /\ last'.ret = 0
             /\ flags' = flags
             /\ rx_intr' = rx_intr
             /\ tx_intr' = tx_intr
        ELSE /\ flags' = flags \ {DMX_FLAGS_DRIVER_IS_ENABLED}
             /\ last'.ret = 1 => ~rx_intr'
             /\ last'.ret = 1 <=> DMX_FLAGS_DRIVER_IS_ENABLED \in flags
             /\ tx_intr' = tx_intr
             /\ head' = head
             /\ data' = data
             /\ tx_size' = tx_size]_vars

\* C7, the case reached: disable was refused while a frame was on the wire.
C7_Witness ==
  /\ last.op = "disable" /\ last.ret = 0 /\ last.path = "sending"
  /\ DMX_FLAGS_DRIVER_IS_SENDING \in flags
  /\ DMX_FLAGS_DRIVER_IS_ENABLED \in flags
  /\ tx_intr

\* min(max(v, lo), hi), as the claim writes the applied value.
Min2(a, b) == IF a <= b THEN a ELSE b
Max2(a, b) == IF a >= b THEN a ELSE b

\* C2: on an installed port dmx_set_break_len(v) stores and returns
\* min(max(v, 92), 1000000), dmx_set_mab_len(v) stores and returns
\* min(max(v, 12), 1000000) and dmx_set_baud_rate(v) applies and returns
\* min(max(v, 245000), 255000); no request yields the error value 0; and
\* dmx_get_break_len / dmx_get_mab_len called next return the value the
\* setter returned.
C2_SettersClamp ==
  [][/\ (last'.op = "set_break_len" /\ dmx_driver_is_installed(last'.port))
        => /\ last'.ret = Min2(Max2(last'.arg, 92), 1000000)
           /\ break_len' = last'.ret
           /\ last'.ret # 0
     /\ (last'.op = "set_mab_len" /\ dmx_driver_is_installed(last'.port))
        => /\ last'.ret = Min2(Max2(last'.arg, 12), 1000000)
           /\ mab_len' = last'.ret
           /\ last'.ret # 0
     /\ (last'.op = "set_baud_rate" /\ dmx_driver_is_installed(last'.port))
        => /\ last'.ret = Min2(Max2(last'.arg, 245000), 255000)
           /\ baud_rate' = last'.ret
           /\ last'.ret # 0
     /\ (last.op = "set_break_len" /\ last'.op = "get_break_len"
           /\ last.port = last'.port /\ dmx_driver_is_installed(last'.port))
        => last'.ret = last.ret
     /\ (last.op = "set_mab_len" /\ last'.op = "get_mab_len"
           /\ last.port = last'.port /\ dmx_driver_is_installed(last'.port))
        => last'.ret = last.ret]_vars

\* C2, the case reached: a break length above the window was clamped, a
\* mark-after-break length below it was clamped before that, and the getter
\* called next returned the clamped break length.
C2_Witness ==
  /\ last.op = "get_break_len" /\ last.ret = 1000000
  /\ break_len = 1000000
  /\ mab_len = 12
  /\ baud_rate = 255000
  /\ dmx_driver_is_installed(0)

\* C6: a public entry point called with an out-of-range port number or for
\* a port with no driver installed returns its error value, false or 0,
\* and neither traps nor changes the driver or the hardware.
C6_InvalidPortReturnsError ==
  [][((last'.op # "install" \/ ~(last'.port < DMX_NUM_MAX))
        /\ ~dmx_driver_is_installed(last'.port))
     => /\ fault' = "none"
        /\ last'.ret = 0
        /\ UNCHANGED <<dmx_driver, ptr, flagVars, cfgVars, pdVars>>]_vars

\* C5: dmx_driver_install on an installed port returns false and leaves the
\* installed driver unchanged; and when two tasks call dmx_driver_install
\* for the same port, at most one call returns true, the table slot refers
\* to that call's driver, and once both calls have returned no second
\* driver object is left allocated.
C5_InstallExclusive ==
  [][/\ (last' # last /\ last'.op = "install" /\ TaskAtRest(last'.arg)
           /\ dmx_driver_is_installed(0))
        => (last'.ret = 0 /\ UNCHANGED <<lifeVars, flagVars, cfgVars, pdVars, objs>>)
     /\ Cardinality({t \in Tasks : tpc'[t] = "true"}) <= 1
     /\ \A t \in Tasks : tpc'[t] = "true" => dmx_driver' = tdrv'[t]
     /\ (\A t \in Tasks : TaskAtRest(t)') => objs' \subseteq {dmx_driver'}]_vars

\* The table holds pid.
InTable(pid) == \E i \in 0 .. num_parameters - 1 : params[i].pid = pid

\* The results of every call of an add function for pid in this state.
AddResults(pid) ==
  {rdm_pd_add_new(PdState, pid, in.alloc_size, in.ghit) :
     in \in {x \in AddNewInputs : x.pid = pid /\ x.sub_device = 0}}
  \cup {rdm_pd_add_alias(PdState, pid, 1, in.alias, in.offset, in.ghit, in.gbase) :
     in \in {x \in AddAliasInputs : x.pid = pid /\ x.sub_device = 0}}
  \cup {rdm_pd_add_deterministic(PdState, pid, 0, in.ghit) :
     in \in {x \in AddDeterministicInputs : x.pid = pid /\ x.sub_device = 0}}

\* An add function's result says the call failed: NULL, or false.
Failed(res) == res.ret = NoData \/ (res.ret = 0 /\ res.path # "ok")

\* C8: an add with a PID that is already in the table fails and changes
\* neither num_parameters, pd_head nor any table entry; and the PIDs that
\* rdm_pd_list reports are the PIDs of the successful adds, in their order.
C8_DuplicateAddAndListOrder ==
  (fault = "none" /\ dmx_driver_is_installed(0))
  => /\ \A pid \in PidInputs : InTable(pid) =>
          \A res \in AddResults(pid) : Failed(res) /\ res.s = PdState
     /\ rdm_pd_list(PdState, RDM_RESPONDER_PIDS_MAX) = added

\* C9: no two table entries share a PID, num_parameters is at most the
\* capacity, an add of a PID that is not in the table fails exactly when
\* the table is full (or, for rdm_pd_add_new, the heap cannot hold the
\* parameter; for rdm_pd_add_alias, the base is not in the table), and a
\* failed add leaves the store unchanged.
C9_UniquePidsAndAddFailure ==
  (fault = "none" /\ dmx_driver_is_installed(0))
  => /\ \A i, j \in 0 .. num_parameters - 1 : params[i].pid = params[j].pid => i = j
     /\ num_parameters <= RDM_RESPONDER_PIDS_MAX
     /\ \A pid \in PidInputs : ~InTable(pid) =>
          /\ \A in \in {x \in AddNewInputs : x.pid = pid /\ x.sub_device = 0} :
               LET res == rdm_pd_add_new(PdState, pid, in.alloc_size, in.ghit)
               IN  /\ Failed(res) <=> (num_parameters = RDM_RESPONDER_PIDS_MAX
                                       \/ in.alloc_size > pd_alloc_size - pd_head)
                   /\ Failed(res) => res.s = PdState
          /\ \A in \in {x \in AddAliasInputs : x.pid = pid /\ x.sub_device = 0} :
               LET res == rdm_pd_add_alias(PdState, pid, 1, in.alias, in.offset,
                                           in.ghit, in.gbase)
               IN  /\ Failed(res) <=> (num_parameters = RDM_RESPONDER_PIDS_MAX
                                       \/ ~InTable(in.alias))
                   /\ Failed(res) => res.s = PdState
          /\ \A in \in {x \in AddDeterministicInputs : x.pid = pid /\ x.sub_device = 0} :
               LET res == rdm_pd_add_deterministic(PdState, pid, 0, in.ghit)
               IN  /\ Failed(res) <=> num_parameters = RDM_RESPONDER_PIDS_MAX
                   /\ Failed(res) => res.s = PdState

\* The table entries that own storage of the parameter heap.
NewEntries == {i \in 0 .. num_parameters - 1 : params[i].kind = "new"}

\* C10: while the port is installed pd_head never decreases and never
\* exceeds the heap size, the regions that successful rdm_pd_add_new calls
\* handed out are pairwise disjoint and lie in the heap, and an
\* rdm_pd_add_new that asks for more bytes than remain fails and changes
\* neither pd_head nor the table.
C10_BumpAllocator ==
  [][/\ (dmx_driver_is_installed(0) /\ dmx_driver_is_installed(0)') => pd_head' >= pd_head
     /\ (fault' = "none" /\ dmx_driver_is_installed(0)') =>
          /\ pd_head' <= pd_alloc_size'
          /\ \A i \in NewEntries' :
               /\ 0 <= params'[i].data
               /\ params'[i].data + params'[i].alloc_size <= pd_head'
          /\ \A i, j \in NewEntries' : i < j =>
               params'[i].data + params'[i].alloc_size <= params'[j].data
     /\ (last' # last /\ last'.op = "add_new" /\ dmx_driver_is_installed(0)
           /\ last'.arg > pd_alloc_size - pd_head) =>
          /\ last'.ret = NoData
          /\ UNCHANGED <<num_parameters, params, pd_head, pd_alloc_size>>]_vars

\* C10, the case reached: rdm_pd_add_new was refused for lack of heap while
\* the table had room, after an earlier call had been given a region.
C10_Witness ==
  /\ last.op = "add_new" /\ last.ret = NoData /\ last.path = "noheap"
  /\ num_parameters < RDM_RESPONDER_PIDS_MAX
  /\ NewEntries # {}
  /\ pd_head > 0

\* q is p with nothing or something appended.
IsPrefix(p, q) == Len(p) <= Len(q) /\ \A i \in 1 .. Len(p) : q[i] = p[i]

\* C21: a call of rdm_pd_add_alias that returns a pointer was given a base
\* PID that is in the table and an offset below the base's alloc_size, the
\* entry it appended points to the base's data plus the offset and pd_head
\* is as before; a call that returns NULL leaves the table and the heap as
\* they were.
C21_AliasInsideBase ==
  [][(last'.op = "add_alias" /\ last'.path \notin {"assert", "sub_device"})
     => LET alias == ArgAlias(last'.arg)
            offset == ArgOffset(last'.arg)
            apdi == PdFind(PdState, alias)
        IN  IF last'.ret # NoData
            THEN /\ apdi < num_parameters
                 /\ offset < params[apdi].alloc_size
                 /\ num_parameters' = num_parameters + 1
                 /\ params'[num_parameters].data = params[apdi].data + offset
                 /\ last'.ret = params[apdi].data + offset
                 /\ pd_head' = pd_head
            ELSE UNCHANGED <<num_parameters, params, pd_head, pd_alloc_size,
                             pd_mem>>]_vars

\* The slots of the frame received since the last BREAK, as a sequence.
Received == [i \in 1 .. slot_idx |-> Slot(buffer, i - 1)]
\* The frame on the line has arrived whole and is stream.
Arrived(stream) ==
  /\ rx_frame.open /\ rx_frame.wire = <<>> /\ rx_frame.slots = Len(stream)
  /\ slot_idx = Len(stream) /\ Received = stream

\* C22: when the bytes of a DISC_UNIQUE_BRANCH response of a UID have
\* arrived, the handlers have posted, with a preamble of 0 to 7 bytes and the
\* right checksum, the one event OK with that UID as its source; with a
\* preamble of 8 bytes no event OK; and with a checksum byte that is wrong,
\* one event with a checksum error.
C22_DiscoveryResponseDecoded ==
  \A uid \in LineUids, preamble_len \in 0 .. RDM_PREAMBLE_MAX_LEN + 1,
     bad \in {"none", "hi", "lo"} :
    Arrived(DiscResponse(uid, preamble_len, bad))
      => IF preamble_len > RDM_PREAMBLE_MAX_LEN
         THEN \A k \in 1 .. Len(rx_queue) : rx_queue[k].status # "OK"
         ELSE IF bad = "none"
         THEN rx_queue = <<RdmEvent("OK", slot_idx, uid)>>
         ELSE Len(rx_queue) = 1 /\ rx_queue[1].status = "INVALID_CHECKSUM"

\* C23: an RX_CLASH interrupt raised while the slots of a frame are being
\* stored posts one event with the status of a data collision, and after it
\* the handlers store no slot until the next BREAK.
C23_ClashPostsCollision ==
  [][(last'.op = "RX_CLASH" /\ last' # last /\ rx_frame.open /\ slot_idx > 0 - 1)
     => /\ last'.path = "DATA_COLLISION"
        /\ Len(rx_queue') = Len(rx_queue) + 1
        /\ slot_idx' = 0 - 1]_vars

\* C24: an RX_DATA interrupt that stores slots of a frame for which no event
\* was posted, and after which the frame begins with the RDM start code and
\* sub-start code and has at least its message length plus 2 slots, posts the
\* event of the packet.
C24_RdmCompleteAtLength ==
  [][(/\ last'.op = "RX_DATA" /\ slot_idx > 0 - 1 /\ slot_idx' > slot_idx
      /\ rx_frame.open /\ ~event_sent
      /\ slot_idx' > RDM_MESSAGE_LEN_INDEX
      /\ Slot(buffer', 0) = RDM_SC /\ Slot(buffer', 1) = 1
      /\ slot_idx' >= Slot(buffer', RDM_MESSAGE_LEN_INDEX) + 2)
     => (last'.path = "OK" /\ event_sent')]_vars

\* C25: when the bytes of an RDM packet whose checksum is not the sum of
\* the bytes before it have arrived, the handlers have posted an event with
\* a checksum error and no event OK.
C25_RdmChecksumVerified ==
  \A body \in {<<>>, <<1>>}, bad \in {"hi", "lo"} :
    Arrived(RdmPacket(body, bad, <<>>))
      => /\ \A k \in 1 .. Len(rx_queue) : rx_queue[k].status # "OK"
         /\ \E k \in 1 .. Len(rx_queue) : rx_queue[k].status = "INVALID_CHECKSUM"

\* C26: the BREAK that ends a frame which had no error and is not an RDM
\* packet sets the size estimate to the number of slots received in that
\* frame, whether or not an event was posted for the frame.
C26_SizeGuessFollowsFrame ==
  [][(last'.op = "RX_BREAK" /\ rx_frame.open /\ rx_frame.errs = {}
      /\ slot_idx = rx_frame.slots /\ buffer[0] # RDM_SC)
     => size_guess' = rx_frame.slots]_vars

\* The bytes written to the TX FIFO are the first slots of the buffer.
TxWirePrefix ==
  /\ Len(tx.wire) <= tx.size
  /\ \A i \in 1 .. Len(tx.wire) : tx.wire[i] = buffer[i - 1]

TurnedAround == awaiting_response /\ rx_ena /\ tx.timer = "running"

\* C28: the handler of TX_DONE turns the bus around and arms the response
\* timer exactly when the frame sent was an RDM request to one responder or
\* a discovery command, and no TIMEOUT event is posted after another frame.
C28_TurnaroundOnlyForRequests ==
  [][/\ (last'.op = "TX_DONE" /\ tx.busy)
          => (TurnedAround' <=> tx.kind \in {"GET", "DISC_UNIQUE_BRANCH"})
     /\ (last'.op = "TIMER" /\ last'.path = "TIMEOUT" /\ last' # last)
          => tx.kind \in {"GET", "DISC_UNIQUE_BRANCH"}]_vars

\* C29: the handler of TX_DONE that turns the bus around leaves slot_idx at
\* 0 after a DISC_UNIQUE_BRANCH and at -1 after another RDM request; the
\* bytes of a response that arrive without a BREAK are stored from slot 0
\* after a DISC_UNIQUE_BRANCH and are not stored after another request.
C29_HeadAfterTurnaround ==
  [][/\ (last'.op = "TX_DONE" /\ tx.busy /\ buffer[0] = RDM_SC)
          => slot_idx' = (IF tx.kind = "DISC_UNIQUE_BRANCH" THEN 0 ELSE 0 - 1)
     /\ (last'.op = "RX_DATA" /\ ~rx_frame.open /\ rx_frame.slots = 0
            /\ rx_frame.wire # <<>>)
          => IF tx.kind = "DISC_UNIQUE_BRANCH"
             THEN /\ slot_idx' = rx_frame'.slots
                  /\ buffer'[0] = rx_frame.wire[1]
             ELSE slot_idx' = 0 - 1 /\ buffer' = buffer]_vars

\* The request i on the line searched the interval lo .. hi: a
\* DISC_UNIQUE_BRANCH with these bounds, or the DISC_MUTE of the one UID.
Searches(i, lo, hi) ==
  IF lo = hi
  THEN rdm_sent[i].pid = "DISC_MUTE" /\ rdm_sent[i].destination_uid = lo
  ELSE /\ rdm_sent[i].pid = "DISC_UNIQUE_BRANCH"
       /\ rdm_sent[i].lower_bound = lo /\ rdm_sent[i].upper_bound = hi

\* C30: when rdm_discover_with_callback has returned, for every
\* DISC_UNIQUE_BRANCH it sent on an interval lo .. hi with lo < hi: if the
\* request was answered by a collision or by a response with a bad checksum,
\* the interval lo .. mid was searched after it and mid + 1 .. hi after
\* that; if no attempt on the interval was answered at all, neither half was
\* searched.
C30_SplitOnCollision ==
  (last.op = "discover" /\ last.path = "ok")
    => LET n == Len(rdm_sent)
           starts == {i \in 1 .. n : rdm_sent[i].pid = "DISC_UN_MUTE"}
           first == CHOOSE i \in starts : \A j \in starts : j <= i
       IN  \A i \in first + 1 .. n :
             (rdm_sent[i].pid = "DISC_UNIQUE_BRANCH"
                /\ rdm_sent[i].lower_bound < rdm_sent[i].upper_bound)
             => LET lo == rdm_sent[i].lower_bound
                    hi == rdm_sent[i].upper_bound
                    mid == (lo + hi) \div 2
                    silent == \A j \in first + 1 .. n :
                                Searches(j, lo, hi) => rdm_sent[j].answer = "TIMEOUT"
                IN  /\ rdm_sent[i].answer \in {"DATA_COLLISION", "INVALID_CRC"}
                         => \E j \in i + 1 .. n, k \in i + 1 .. n :
                              j < k /\ Searches(j, lo, mid) /\ Searches(k, mid + 1, hi)
                    /\ silent
                         => \A j \in i + 1 .. n :
                              ~Searches(j, lo, mid) /\ ~Searches(j, mid + 1, hi)

\* The steps of the discovery between taking the branch at step i from the
\* stack and taking the next one.
BranchSteps(i) ==
  LET later == {j \in i + 1 .. Len(trace) : trace[j].ev = "pop"}
  IN  IF later = {} THEN i + 1 .. Len(trace)
      ELSE i + 1 .. (CHOOSE j \in later : \A k \in later : j <= k) - 1

\* C31: for every branch with lower_bound = upper_bound = lo that a discovery
\* took from its stack, the steps made for it are DISC_MUTE requests followed
\* by at most one call of cb and no DISC_UNIQUE_BRANCH; at most three
\* requests go to lo; a fourth goes to the byte-flipped UID, and only when
\* none of the three was answered; cb is called only after a mute response
\* with parameters and no error.
C31_LeafMuteAttempts ==
  \A i \in 1 .. Len(trace) :
    (trace[i].ev = "pop" /\ trace[i].lo = trace[i].hi)
    => LET lo == trace[i].lo
           steps == BranchSteps(i)
           mutes == {j \in steps : trace[j].ev = "mute"}
           cbs == {j \in steps : trace[j].ev = "cb"}
           m == Cardinality(mutes)
       IN  /\ \A j \in steps : trace[j].ev \in {"mute", "cb"}
           /\ mutes = i + 1 .. i + m
           /\ m <= 4
           /\ \A j \in mutes : j <= i + 3 => trace[j].lo = lo
           /\ m = 4 => /\ trace[i + 4].lo = FlipUid(lo, UidBytes)
                       /\ \A j \in i + 1 .. i + 3 : trace[j].err = "TIMEOUT"
           /\ Cardinality(cbs) <= 1
           /\ \A j \in cbs : /\ trace[j - 1].ev = "mute"
                              /\ trace[j - 1].n > 0
                              /\ trace[j - 1].err = "OK"

\* C32: in a build with the quick-find pass, every whole response to a
\* DISC_UNIQUE_BRANCH that fewer than three whole responses on the same
\* branch came before is followed by a DISC_MUTE, and the mute that is
\* answered by a call of cb and by another DISC_UNIQUE_BRANCH on the branch.
C32_QuickFindRounds ==
  (last.op = "discover" /\ last.path = "ok" /\ last.arg = 0)
  => \A i \in 1 .. Len(trace) :
       trace[i].ev = "pop"
       => LET steps == BranchSteps(i)
              whole == {j \in steps : trace[j].ev = "branch" /\ trace[j].n > 0}
          IN  \A j \in whole :
                Cardinality({k \in whole : k < j}) < 3
                => /\ j + 1 \in steps /\ trace[j + 1].ev = "mute"
                   /\ \E k \in steps : k > j /\ trace[k].ev = "branch"
                   /\ \A k \in steps :
                        (k > j /\ trace[k].ev = "mute" /\ trace[k].n > 0)
                        => k + 1 \in steps /\ trace[k + 1].ev = "cb"

\* C33: while rdm_discover_with_callback runs, its stack never holds more
\* than StackLen branches (49 for six-byte UIDs), every branch on it has
\* lower_bound <= upper_bound, and a pass of the loop that splits the branch
\* it took puts two branches in its place that are next to each other and
\* span exactly the one taken: the lower one on top.
C33_StackBounded ==
  /\ [](/\ Len(disc.stack) <= StackLen
        /\ \A i \in 1 .. Len(disc.stack) :
             disc.stack[i].lower_bound <= disc.stack[i].upper_bound)
  /\ [][(disc.active /\ Len(disc'.stack) > Len(disc.stack))
        => LET n == Len(disc.stack)
               taken == disc.stack[n]
               upper == disc'.stack[n]
               lower == disc'.stack[n + 1]
           IN  /\ Len(disc'.stack) = n + 1
               /\ SubSeq(disc'.stack, 1, n - 1) = SubSeq(disc.stack, 1, n - 1)
               /\ lower.lower_bound = taken.lower_bound
               /\ lower.upper_bound + 1 = upper.lower_bound
               /\ upper.upper_bound = taken.upper_bound]_vars

\* The stack is full: a branch of two UIDs was split with StackLen - 2
\* branches waiting below it.
C33_Witness ==
  /\ disc.active
  /\ Len(disc.stack) = StackLen
  /\ disc.stack[StackLen].lower_bound = disc.stack[StackLen].upper_bound

\* C34: whatever RX_DATA interrupts arrive with whatever number of bytes in
\* the FIFO, only the slots 0 .. RxBufSize - 1 of the buffer are written;
\* when slot_idx is RxBufSize or more the handler discards the bytes of the
\* FIFO, leaves the buffer as it is and adds their number to slot_idx; when
\* slot_idx is -1 it leaves the buffer and slot_idx as they are.
C34_WritesInsideBuffer ==
  /\ [](DOMAIN buffer \subseteq 0 .. RxBufSize - 1)
  /\ [][last'.op = "RX_DATA"
        => LET rxfifo_len == Len(rx_frame.left) + rx_frame'.slots - rx_frame.slots
           IN  /\ slot_idx >= RxBufSize
                    => buffer' = buffer /\ slot_idx' = slot_idx + rxfifo_len
               /\ slot_idx = 0 - 1 => buffer' = buffer /\ slot_idx' = slot_idx
               /\ \A i \in DOMAIN buffer :
                    buffer'[i] # buffer[i] => slot_idx <= i /\ i < slot_idx'
               /\ rx_frame'.left # <<>> => slot_idx' = RxBufSize]_vars

\* A frame longer than the buffer was received: the handler filled the
\* buffer from a FIFO that held more, and counted the rest afterwards.
C34_Witness ==
  /\ last.op = "RX_DATA"
  /\ slot_idx = RxBufSize + 1
  /\ rx_frame.slots = slot_idx
  /\ DOMAIN buffer = 0 .. RxBufSize - 1

\* C35: while one task calls the controller's entry points and another
\* deletes the driver, no call reads driver->mux through a NULL pointer or
\* from a driver that was freed.
C35_NoUseAfterDelete == fault \notin {"null_driver", "use_after_free"}

\* C36: when the add functions are called on two tasks, the table they
\* leave behind holds no PID twice, num_parameters is the number of calls
\* that returned success, and every PID whose add returned success is still
\* in the table (no entry was overwritten).
C36_ConcurrentAddsKeepTable ==
  (fault = "none" /\ dmx_driver_is_installed(0)
     /\ \A t \in Tasks : ctask[t].pc = "idle") =>
    /\ \A i, j \in 0 .. num_parameters - 1 : params[i].pid = params[j].pid => i = j
    /\ num_parameters = Len(added)
    /\ \A k \in 1 .. Len(added) :
         \E i \in 0 .. num_parameters - 1 : params[i].pid = added[k]

\* C37: a call of rdm_pd_set changes only bytes inside the storage of its
\* PID, at most alloc_size of them from the start of that storage, and it
\* returns 0 and changes nothing when the PID is not registered, has no
\* storage, or size is 0.
C37_SetStaysInsideParameter ==
  [][(last'.op = "set" /\ fault' = "none" /\ dmx_driver_is_installed(0)) =>
       LET pdi == PdFind(PdState, last'.arg)
           known == pdi < num_parameters
           pd == IF known THEN params[pdi].data ELSE NoData
       IN  /\ pd_mem' # pd_mem => last'.ret > 0 /\ pd >= 0
           /\ \A i \in 1 .. Len(pd_mem) :
                pd_mem'[i] # pd_mem[i] => pd < i /\ i <= pd + params[pdi].alloc_size
           /\ (~known \/ pd = NoData) => last'.ret = 0
           /\ <<num_parameters, params, pd_head, pd_alloc_size>>'
                = <<num_parameters, params, pd_head, pd_alloc_size>>]_vars

\* What the timer handler does when no response came: it posts one TIMEOUT
\* event, clears the pending response and pauses the timer, and the first
\* alarm of the transmission after it ends the BREAK and starts the MAB.
TimeoutPostedOnce ==
  /\ [][(last'.op = "TIMER" /\ last'.path = "TIMEOUT") =>
          /\ rx_queue' = Append(rx_queue, IsrEvent("TIMEOUT", slot_idx))
          /\ ~awaiting_response' /\ tx'.timer = "paused"]_vars
  /\ [][(last'.op = "TIMER" /\ ~awaiting_response /\ tx.alarms = 0) =>
          slot_idx = 0 - 1 /\ slot_idx' = 0 /\ rx_queue' = rx_queue]_vars

\* C38: after a bus turnaround, the handler that receives the complete
\* response clears the pending response, and no TIMEOUT event follows the
\* response's event for the same request; when no response arrives one
\* TIMEOUT event is posted, the timer is paused, and the next timer
\* interrupt is the BREAK/MAB step of the next transmission.
C38_ResponseOrOneTimeout ==
  /\ [][(awaiting_response /\ last'.op = "RX_DATA" /\ rx_queue' # rx_queue) =>
          ~awaiting_response']_vars
  /\ [](\A i, j \in 1 .. Len(rx_queue) :
          i < j /\ rx_queue[i].status # "TIMEOUT" => rx_queue[j].status # "TIMEOUT")
  /\ TimeoutPostedOnce

\* C39: a GET that left response->err with another value than OK returned
\* 0 parameters and left the caller's output value as it was.
C39_GetErrorLeavesOutput ==
  (last.op = "get_identify" /\ last.path # "rejected" /\ response.err # "OK")
    => last.ret = 0 /\ last.out = last.before

\* C40: a task that is in no controller call does not hold the mutex and
\* has given it as often as it took it in its last call, whatever path the
\* call returned on; a task in a call holds it exactly as often as it took
\* it more than it gave it; and a task that waits to take the mutex comes
\* to hold it.
C40_TakesAndGivesBalance ==
  /\ [](\A t \in Tasks :
          /\ ctask[t].pc = "idle" => ctask[t].took = ctask[t].gave /\ mux.holder # t
          /\ ctask[t].took - ctask[t].gave = IF mux.holder = t THEN mux.count ELSE 0)
  /\ \A t \in Tasks : (ctask[t].pc = "loaded") ~> (mux.holder = t)

\* A discovery with its nested requests has returned, and the other task
\* then took the mutex.
C40_Witness ==
  /\ ctask[1].pc = "idle" /\ ctask[1].op = "discover"
  /\ ctask[1].took = DiscoverSends + 1
  /\ ctask[2].pc = "body" /\ mux.holder = 2

\* C11: the queued-message list holds no PID twice and at most
\* RDM_RESPONDER_QUEUE_SIZE_MAX PIDs, a call of rdm_pd_set_and_queue only
\* appends (so the PIDs stay in the order of their first enqueue), a call
\* that wrote bytes leaves its PID in the list, and a call that wrote
\* nothing leaves the list as it was.
C11_QueueUniqueOrdered ==
  [][(fault' = "none" /\ dmx_driver_is_installed(0)') =>
       /\ rdm_queue_size' = Len(rdm_queue')
       /\ rdm_queue_size' <= RDM_RESPONDER_QUEUE_SIZE_MAX
       /\ \A i, j \in 1 .. Len(rdm_queue') : rdm_queue'[i] = rdm_queue'[j] => i = j
       /\ (last'.op = "set_and_queue" /\ dmx_driver_is_installed(0)) =>
            /\ IsPrefix(rdm_queue, rdm_queue')
            /\ Len(rdm_queue') <= Len(rdm_queue) + 1
            /\ last'.ret > 0 => \E i \in 1 .. Len(rdm_queue') : rdm_queue'[i] = last'.arg
            /\ last'.ret = 0 => rdm_queue' = rdm_queue]_vars

\* C11, the case reached: two PIDs are queued and the last call wrote the
\* PID at the front of the queue again, which did not queue it a second time.
C11_Witness ==
  /\ fault = "none" /\ dmx_driver_is_installed(0)
  /\ rdm_queue_size = 2
  /\ last.op = "set_and_queue" /\ last.ret > 0 /\ last.arg = rdm_queue[1]

\* The format holds fixed-size fields only: b, w, d and u.
FixedFields(format) ==
  \A i \in 1 .. Len(format) : format[i] \in {"b", "w", "d", "u"}

\* C13: for a format of b, w, d and u fields and a buffer as long as one
\* instance of the format, rdm_pd_serialize and rdm_pd_deserialize each
\* return that length, and either of them applied to the output of the other
\* gives back the bytes the first one read.
C13_EncodeRoundTrip ==
  (fault = "none" /\ enc.op \in {"serialize", "deserialize"}
     /\ FixedFields(enc.format) /\ enc.len = rdm_pd_get_size(enc.format))
  => /\ enc.ret = enc.len
     /\ enc.chained => (enc.ret0 = enc.len /\ enc.out = enc.first)

\* The bytes of n instances of a format of fixed-size fields, read from b
\* and converted field by field: the bytes of a word and of a dword are
\* reversed, and so are the two bytes and the four bytes of a UID.
Converted(format, b, n) ==
  LET size == rdm_pd_get_size(format)
      Rev(si, m) == [k \in 1 .. m |-> b[si + m + 1 - k]]
      RECURSIVE Field(_, _)
      Field(i, si) ==
        IF i > Len(format) \/ format[i] = "$" THEN <<>>
        ELSE CASE format[i] = "b" -> Rev(si, 1) \o Field(i + 1, si + 1)
               [] format[i] = "w" -> Rev(si, 2) \o Field(i + 1, si + 2)
               [] format[i] = "d" -> Rev(si, 4) \o Field(i + 1, si + 4)
               [] OTHER -> Rev(si, 2) \o Rev(si + 2, 4) \o Field(i + 1, si + 6)
      RECURSIVE Instance(_)
      Instance(j) == IF j = n THEN <<>> ELSE Field(1, j * size) \o Instance(j + 1)
  IN  Instance(0)

\* C14: rdm_pd_serialize with a format of fixed-size fields and no end
\* anchor writes len / format_size instances, each converted field by field,
\* and returns their size; with the end anchor it writes one instance; with
\* a string or an optional UID at the end it writes no more than one.
C14_SerializeInstances ==
  (fault = "none" /\ enc.op = "serialize" /\ ~enc.chained)
  => LET format == enc.format
         size == rdm_pd_get_size(format)
         anchored == format[Len(format)] = "$"
         body == IF anchored THEN SubSeq(format, 1, Len(format) - 1) ELSE format
     IN  IF FixedFields(format)
         THEN /\ enc.ret = (enc.len \div size) * size
              /\ enc.out = Converted(format, enc.source, enc.len \div size)
         ELSE IF FixedFields(body)
         THEN /\ enc.ret = size
              /\ enc.out = Converted(format, enc.source, 1)
         ELSE enc.ret = Len(enc.out) /\ enc.ret <= size

\* C12: when a SET request for a parameter that rdm_pd_add_new registered
\* with a format of one fixed-size field (b, w, d or u, with or without the
\* end anchor) was answered ACK and the next request is a GET of the same
\* parameter on the root device, the GET is answered ACK with the parameter
\* data of the SET.
C12_SetThenGet ==
  [][(/\ resp' # resp /\ fault' = "none"
      /\ resp.cc = "SET" /\ resp.type = "ACK"
      /\ resp'.cc = "GET" /\ resp'.pid = resp.pid /\ resp'.sub_device = 0
      /\ LET pdi == PdFind(PdState, resp.pid)
         IN  /\ pdi < num_parameters
             /\ params[pdi].kind = "new"
             /\ pd_format[pdi] \in {<<c>> : c \in {"b", "w", "d", "u"}}
                                     \cup {<<c, "$">> : c \in {"b", "w", "d", "u"}})
     => (resp'.type = "ACK" /\ resp'.out = resp.pd)]_vars

\* C15: the requests sent on the port carry transaction numbers that
\* increase by one modulo 256 from each request to the next.
C15_TransactionNumbers ==
  \A i \in 1 .. Len(rdm_sent) - 1 :
    rdm_sent[i + 1].tn = (rdm_sent[i].tn + 1) % 256

\* C18: when rdm_discover_with_callback returns, whatever responders are on
\* the line and however their colliding answers were seen, the callback was
\* called exactly once for each responder's UID, the return value is their
\* number, and each of them is muted.
C18_DiscoveryFindsAll ==
  last.op = "discover" /\ last.path = "ok" /\ dmx_driver_is_installed(last.port)
    => /\ Len(uids) = Cardinality(bus)
       /\ {uids[i] : i \in 1 .. Len(uids)} = bus
       /\ last.ret = Cardinality(bus)
       /\ muted = bus

\* C19: a GET IDENTIFY_DEVICE that is answered with ACK_TIMER is sent a
\* second time, with the same command class, PID and destination, and the
\* call then returns the data of an ACK or reports a timeout.
C19_AckTimerRepoll ==
  [][(last'.op = "get_identify" /\ last'.path = "ACK_TIMER")
     => LET n == Len(rdm_sent')
        IN  /\ n = Len(rdm_sent) + 2
            /\ rdm_sent'[n].cc = rdm_sent'[n - 1].cc
            /\ rdm_sent'[n].pid = rdm_sent'[n - 1].pid
            /\ rdm_sent'[n].destination_uid = rdm_sent'[n - 1].destination_uid
            /\ (last'.ret = 1 \/ response'.err = "TIMEOUT")]_vars

\* C20: every port that has a driver and has reported its UID reports the
\* UID of the device, the one derived at the first install.
C20_OneUidForAllPorts ==
  \A p \in ports : rdm_uid[p] # NullUid => rdm_uid[p] = rdm_device_uid

\* C16: the first error of a frame being a framing error after N slots, the
\* handler posts an IMPROPER_SLOT event of size N; the bytes that arrive
\* after it in the frame post no event; and the BREAK that ends the next
\* frame, a frame without error received by a reader, finds that frame
\* reported by one event, with status OK and the number of its slots.
C16_FramingErrorThenCleanFrame ==
  [][/\ (last'.op = "IMPROPER_SLOT" /\ rx_frame.open /\ rx_frame.errs = {})
          => (last'.path = "IMPROPER_SLOT" /\ last'.ret = rx_frame'.slots)
     /\ (last'.op = "RX_DATA" /\ "IMPROPER_SLOT" \in rx_frame.errs)
          => last'.path = "none"
     /\ (/\ last'.op = "RX_BREAK" /\ rx_frame.open /\ mode = "READ"
         /\ "IMPROPER_SLOT" \in rx_frame.prev /\ rx_frame.errs = {}
         /\ rx_frame.slots > 0 /\ buffer[0] # RDM_SC)
          => \/ rx_queue = <<>> /\ last'.path = "OK" /\ last'.ret = rx_frame.slots
             \/ rx_queue = <<IsrEvent("OK", rx_frame.slots)>> /\ last'.path = "none"
    ]_vars

\* C17: the handlers post at most one event for a frame, counting the event
\* the BREAK that ends it posts, and exactly one, with the status of one of
\* its errors, for a frame in which an error interrupt occurred.
C17_OneEventPerPacket ==
  [][/\ Len(rx_queue') <= 1
     /\ (last'.op = "RX_BREAK" /\ rx_frame.open)
          => LET events == rx_queue \o (IF last'.path = "none" THEN <<>>
                                        ELSE <<IsrEvent(last'.path, last'.ret)>>)
             IN  /\ Len(events) <= 1
                 /\ rx_frame.errs # {}
                      => Len(events) = 1 /\ events[1].status \in rx_frame.errs
    ]_vars

\* ------------------------------------------------------- specifications

\* The driver's life cycle, its flags and the transmit steps.
Next ==
  \/ \E in \in InstallInputs :
       dmx_driver_install(in.dmx_num, in.arg = "null_config", in.arg # "footprint",
                          in.hs, in.fail, in.g, in.ghit)
  \/ \E dmx_num \in PortInputs : dmx_driver_delete(dmx_num)
  \/ \E dmx_num \in PortInputs : dmx_driver_disable(dmx_num)
  \/ \E dmx_num \in PortInputs : dmx_driver_enable(dmx_num)
  \/ \E frame \in Frames : dmx_send(frame)
  \/ dmx_tx_start
  \/ dmx_tx_done

Spec == Init /\ [][Next]_vars

\* The parameter store over the driver's life cycle.
NextPd ==
  \/ \E in \in InstallInputs :
       dmx_driver_install(in.dmx_num, in.arg = "null_config", in.arg # "footprint",
                          in.hs, in.fail, in.g, in.ghit)
  \/ \E dmx_num \in PortInputs : dmx_driver_delete(dmx_num)
  \/ \E in \in AddNewInputs :
       PdAddNew(in.pid, in.sub_device, in.alloc_size, <<"b">>, in.ghit)
  \/ \E in \in AddAliasInputs :
       PdAddAlias(in.pid, in.sub_device, in.alias, in.offset, in.ghit, in.gbase)
  \/ \E in \in AddDeterministicInputs :
       PdAddDeterministic(in.pid, in.sub_device, in.ghit)
  \/ \E sub_device \in {0, 1}, num \in ListSizeInputs : PdList(sub_device, num)

SpecPd == Init /\ [][NextPd]_vars

\* Installations that follow one another, with parameters and queued messages.
NextStore ==
  \/ \E in \in InstallInputs :
       dmx_driver_install(in.dmx_num, in.arg = "null_config", in.arg # "footprint",
                          in.hs, in.fail, in.g, in.ghit)
  \/ \E dmx_num \in PortInputs : dmx_driver_delete(dmx_num)
  \/ \E in \in AddNewInputs :
       PdAddNew(in.pid, in.sub_device, in.alloc_size, <<"b">>, in.ghit)
  \/ \E pid \in PidInputs, sub_device \in {0, 1}, size \in {0, 1} :
       PdSetAndQueue(pid, sub_device, <<1>>, size)

SpecStore == Init /\ [][NextStore]_vars

\* The timing configuration over the driver's life cycle.
NextCfg ==
  \/ \E in \in InstallInputs :
       dmx_driver_install(in.dmx_num, in.arg = "null_config", in.arg # "footprint",
                          in.hs, in.fail, in.g, in.ghit)
  \/ \E dmx_num \in PortInputs : dmx_driver_delete(dmx_num)
  \/ \E dmx_num \in PortInputs : dmx_get_break_len(dmx_num)
  \/ \E dmx_num \in PortInputs, v \in BreakInputs : dmx_set_break_len(dmx_num, v)
  \/ \E dmx_num \in PortInputs : dmx_get_mab_len(dmx_num)
  \/ \E dmx_num \in PortInputs, v \in MabInputs : dmx_set_mab_len(dmx_num, v)
  \/ \E dmx_num \in PortInputs, g \in {"trap", "survive"} : dmx_get_baud_rate(dmx_num, g)
  \/ \E dmx_num \in PortInputs, v \in BaudInputs, g \in {"trap", "survive"} :
       dmx_set_baud_rate(dmx_num, v, g)

SpecCfg == Init /\ [][NextCfg]_vars

\* Two tasks that install and delete the same port.
NextRace ==
  \/ \E t \in Tasks : InstallCheck(t)
  \/ \E t \in Tasks, obj \in 1 .. MaxObj : InstallAlloc(t, obj)
  \/ \E t \in Tasks, g \in {"benign", "wild"} : InstallInit(t, g)
  \/ \E t \in Tasks : RaceDelete(t)

SpecRace == Init /\ [][NextRace]_vars

\* Calls of the encoding functions.
NextEnc ==
  \/ \E in \in EncInputs, encode_nulls \in BOOLEAN :
       PdEncode(encode_nulls, in.len, in.format, in.source, FALSE)
  \/ \E encode_nulls \in BOOLEAN : PdEncode(encode_nulls, enc.len, enc.format, <<>>, TRUE)

SpecEnc == Init /\ [][NextEnc]_vars

\* Requests to the parameters of an installed port. A parameter has the
\* storage its format needs, and a SET carries that many bytes, or none.
NextResp ==
  \/ \E in \in InstallInputs :
       dmx_driver_install(in.dmx_num, in.arg = "null_config", in.arg # "footprint",
                          in.hs, in.fail, in.g, in.ghit)
  \/ \E c \in {"b", "w", "d", "u"}, anchor \in BOOLEAN :
       LET format == IF anchor THEN <<c, "$">> ELSE <<c>>
       IN  PdAddNew(1, 0, rdm_pd_get_size(format), format, FALSE)
  \/ \E pid \in {1, 2}, cc \in {"GET", "SET"}, sub_device \in {0, 1},
        n \in {0, 1, 2, 4, 6}, b \in {0, 1} :
       /\ cc = "GET" => n = 0 /\ b = 0
       /\ sub_device = 1 => n = 0 /\ b = 0
       /\ \A i \in 0 .. num_parameters - 1 :
            params[i].pid = pid => n \in {0, rdm_pd_get_size(pd_format[i])}
       /\ PdCallResponseHandler(cc, pid, sub_device, [i \in 1 .. n |-> i * b])

SpecResp == Init /\ [][NextResp]_vars

\* The controller's requests on an installed port, to the responders 0001,
\* 00FF and 0501 and to all of them. A call on a port that is out of range
\* is made with one value of the inputs it never reads, and the installs are
\* the ones no allocation fails in.
NextCtl ==
  \/ \E in \in {x \in InstallInputs : x.fail = "none" /\ x.hs = 0 /\ ~x.ghit} :
       ~disc.active /\
       dmx_driver_install(in.dmx_num, in.arg = "null_config", in.arg # "footprint",
                          in.hs, in.fail, in.g, in.ghit)
  \/ \E dmx_num \in PortInputs, line \in SUBSET {1, 255, 1281},
        garble \in {"clash", "crc", "capture"}, answer \in {"ack", "crc", "err"},
        debug \in BOOLEAN :
       /\ dmx_num # 0 \/ Cardinality(line) < 2 => garble = "clash"
       /\ dmx_num # 0 => line = {} /\ ~debug
       /\ line = {} => answer = "ack"
       /\ RdmDiscover(dmx_num, line, garble, answer, debug)
  \/ DiscStep
  \/ DiscReturn
  \/ \E dmx_num \in PortInputs, uid \in {1, RDM_BROADCAST_ALL_UID},
        answer \in {"TIMEOUT", "ACK", "ACK_TIMER", "NACK_REASON", "ACK_OVERFLOW"},
        value \in {0, 1, 3}, check \in {"ok", "crc", "dest"} :
       /\ dmx_num # 0 \/ uid # 1 => answer = "TIMEOUT"
       /\ value # 0 <=> answer \in {"ACK_TIMER", "NACK_REASON"}
       /\ check # "ok" => answer = "ACK"
       /\ RdmGetIdentifyDevice(dmx_num, uid, answer, value, check, TRUE)

SpecCtl == Init /\ [][NextCtl]_vars

\* The ports of the device are installed and deleted, and asked for their
\* UID; rdm_set_uid is not called.
NextPort ==
  \/ \E dmx_num \in 0 .. DMX_NUM_MAX, fail \in {"none", "args", "alloc"} :
       PortInstall(dmx_num, fail)
  \/ \E dmx_num \in 0 .. DMX_NUM_MAX : PortDelete(dmx_num)
  \/ \E dmx_num \in 0 .. DMX_NUM_MAX : RdmGetUid(dmx_num)

SpecPort == Init /\ [][NextPort]_vars

\* The interrupts of a port, with bursts of one or two bytes, up to one byte
\* in the FIFO at an error, and each error once in a frame. The bytes are 1,
\* and RDM_SC as a start code.
NextIsr ==
  \/ \E rxfifo_len \in {0, 1} : RxError("DATA_OVERFLOW", rxfifo_len)
  \/ \E rxfifo_len \in {0, 1} : RxError("IMPROPER_SLOT", rxfifo_len)
  \/ RxBreak
  \/ \E n \in {0, 1, 2} : \E fifo \in [1 .. n -> {1, RDM_SC}] :
       /\ \A i \in 1 .. n : fifo[i] = RDM_SC => slot_idx + i = 1
       /\ n = 0 => rx_frame.left # <<>>
       /\ RxData(fifo)
  \/ RxClash
  \/ TxDone(1)
  \/ TimerAlarm

SpecIsr == Init /\ [][NextIsr]_vars

\* The responses a port receives after a BREAK.
NextLine ==
  \/ RxBreak
  \/ \E uid \in LineUids,
        preamble_len \in {0, 1, RDM_PREAMBLE_MAX_LEN, RDM_PREAMBLE_MAX_LEN + 1},
        bad \in {"none", "hi", "lo"} :
       LineStart("disc_response", DiscResponse(uid, preamble_len, bad))
  \/ \E body \in {<<>>, <<1>>}, bad \in {"none", "hi", "lo"}, tail \in {<<>>, <<0>>} :
       LineStart("rdm_packet", RdmPacket(body, bad, tail))
  \/ \E n \in {1, 2, Len(rx_frame.wire)} : LineData(n)

SpecLine == Init /\ [][NextLine]_vars

\* The frames a port sends, and the responses it receives.
NextTx ==
  \/ \E kind \in {"DMX"}, frame \in {<<0>>, <<0, 1, 2>>} : SendStart(kind, frame)
  \/ \E kind \in {"GET", "SET_BROADCAST", "DISC_UNIQUE_BRANCH"} :
       SendStart(kind, <<RDM_SC, 1, MaxTx>>)
  \/ TimerAlarm
  \/ TxData
  \/ UartShift
  \/ TxDoneIntr
  \/ RxBreak
  \/ LineStart("disc_response", DiscResponse([man_id |-> 0, dev_id |-> 6], 1, "none"))
  \/ \E n \in {1, Len(rx_frame.wire)} : LineData(n)

SpecTx == Init /\ [][NextTx]_vars

\* The interrupts are served: an alarm of the running timer, a TX_DATA or
\* TX_DONE that the UART raises and the shifting of the FIFO happen.
SpecTxLive ==
  /\ SpecTx
  /\ WF_vars(TimerAlarm) /\ WF_vars(TxData) /\ WF_vars(UartShift)
  /\ WF_vars(TxDoneIntr)


\* The controller's entry points called by two tasks on port 0, which is
\* installed while no call is under way.
MuxInstall(t) ==
  /\ ctask[t].pc = "idle"
  /\ \E in \in {x \in InstallInputs : x.fail = "none" /\ x.hs = 0 /\ ~x.ghit
                                        /\ x.dmx_num = 0 /\ x.arg = "ok"} :
       dmx_driver_install(in.dmx_num, in.arg = "null_config", in.arg # "footprint",
                          in.hs, in.fail, in.g, in.ghit)
MuxCalls(t) ==
  \E op \in MuxOps, dmx_num \in PortInputs, args_ok \in BOOLEAN, alloc_ok \in BOOLEAN :
    /\ ~args_ok => op \in {"disc_response", "get_device_info"}
    /\ ~alloc_ok => op = "discover"
    /\ dmx_num # 0 => args_ok /\ alloc_ok
    /\ MuxCall(t, op, dmx_num, args_ok, alloc_ok)
NextMux ==
  \/ \E t \in Tasks : MuxInstall(t)
  \/ \E t \in Tasks : MuxCalls(t)
  \/ \E t \in Tasks : MuxLoad(t)
  \/ \E t \in Tasks : MuxTake(t)
  \/ \E t \in Tasks : MuxBody(t)
  \/ \E t \in Tasks : MuxGive(t)

SpecMux == Init /\ [][NextMux]_vars
\* A task that has started a call goes on, and a task that waits for the
\* mutex is given it when it is free often enough.
SpecMuxLive ==
  /\ SpecMux
  /\ \A t \in Tasks : /\ WF_vars(MuxLoad(t)) /\ WF_vars(MuxBody(t))
                       /\ WF_vars(MuxGive(t)) /\ SF_vars(MuxTake(t))

\* Task 1 calls the controller's entry points while task 2 installs and
\* deletes the driver.
NextDel ==
  \/ MuxInstall(2)
  \/ MuxCalls(1)
  \/ MuxLoad(1) \/ MuxLoad(2)
  \/ MuxTake(1)
  \/ MuxBody(1)
  \/ MuxGive(1)
  \/ DelCheck(2)
  \/ DelTake(2)
  \/ DelFree(2)
  \/ DelGive(2)

SpecDel == Init /\ [][NextDel]_vars

\* Two tasks add parameters to port 0, which is installed while no add is
\* under way.
AddInstall ==
  /\ \A t \in Tasks : ctask[t].pc = "idle"
  /\ \E in \in {x \in InstallInputs : x.fail = "none" /\ x.dmx_num = 0 /\ x.arg = "ok"} :
       dmx_driver_install(in.dmx_num, in.arg = "null_config", in.arg # "footprint",
                          in.hs, in.fail, in.g, in.ghit)
AddCalls(t) ==
  \E op \in AddOps, pid \in PidInputs, alias \in PidInputs :
    /\ op # "add_alias" => alias = 1
    /\ AddCall(t, op, pid, IF op = "add_new" THEN 26 ELSE IF op = "add_alias" THEN 1 ELSE 0,
               alias, 0)
NextAdd ==
  \/ AddInstall
  \/ \E t \in Tasks : AddCalls(t)
  \/ \E t \in Tasks : AddFind(t)
  \/ \E t \in Tasks, ghit \in BOOLEAN : AddCheck(t, ghit)
  \/ \E t \in Tasks : AddReserve(t)
  \/ \E t \in Tasks, gbase \in {"miss", "big"} : AddAlias(t, gbase)
  \/ \E t \in Tasks : AddWrite(t)

SpecAdd == Init /\ [][NextAdd]_vars

\* Parameters with storage and calls of rdm_pd_set whose size is that of the
\* parameter's storage, one byte more, one byte, or 0.
SetData == [i \in 1 .. SetSizeMax |-> 1]
NextSet ==
  \/ \E in \in InstallInputs :
       dmx_driver_install(in.dmx_num, in.arg = "null_config", in.arg # "footprint",
                          in.hs, in.fail, in.g, in.ghit)
  \/ \E in \in AddNewInputs :
       PdAddNew(in.pid, in.sub_device, in.alloc_size, <<"b">>, in.ghit)
  \/ \E in \in AddDeterministicInputs :
       PdAddDeterministic(in.pid, in.sub_device, in.ghit)
  \/ \E pid \in PidInputs, sub_device \in {0, 1}, size \in {0, 1, SetSizeMax - 1, SetSizeMax} :
       PdSet(pid, sub_device, SetData, size)

SpecSet == Init /\ [][NextSet]_vars

====
